---- MODULE Spec2Model ----
(***************************************************************************)
(* The quantization pipeline of the mobile SMS classifier:                 *)
(*   src/ml_model/mobile_sms_classifier/src/quantization_pipeline.py       *)
(*   src/ml_model/mobile_sms_classifier/train_and_evaluate.py              *)
(*                                                                         *)
(* Python dicts are insertion ordered: a dict is modelled as a sequence of *)
(* [key, value] records in insertion order.  An optional value (None or a  *)
(* value) is a sequence of length 0 or 1.  A float quotient a / b is kept  *)
(* as the exact fraction [num |-> a, den |-> b].  Sizes are whole          *)
(* megabytes, latencies whole milliseconds, accuracies the number of       *)
(* correct predictions on the test corpus of TestSize items (at most 100   *)
(* items, so that data['test_texts'][:100] is the whole corpus).           *)
(* A corpus is kept as its number of texts in the specifications of the    *)
(* pipeline run, and text by text, a text being the sequence of its token  *)
(* ids, in those of the calibration set, the benchmark and the accuracy    *)
(* evaluation.  calls records the calls a run has made, in call order.     *)
(***************************************************************************)
EXTENDS Integers, Sequences, FiniteSets

(* ------------------------------ bounds -------------------------------- *)
MaxSizeMb == 2        \* artifact and model sizes range over 1..MaxSizeMb
TestSize == 1         \* items in the test corpus handed to the evaluation
MaxLatencyMs == 2     \* measured latencies range over 1..MaxLatencyMs
MaxConvTime == 1      \* measured conversion times range over 1..MaxConvTime
MaxConvertCalls == 3  \* conversion outcomes supplied to one quantize_int8 call
SmallCorpus == 400    \* training texts of a corpus shorter than the calibration slice
LargeCorpus == 600    \* training texts of a corpus longer than the calibration slice
MaxBatchSize == 3     \* batch sizes of the representative dataset range over 1..MaxBatchSize
MaxTokens == 2        \* max_length of the tokenizer; texts hold up to MaxTokens + 1 tokens
MaxRuns == 3          \* num_runs handed to a benchmark ranges over 0..MaxRuns
MaxTestItems == 3     \* texts and labels handed to an accuracy evaluation: 0..MaxTestItems

(* --------------------------- program constants ------------------------ *)
\* accuracy_threshold = 0.90 as the fraction 90 / 100
AccuracyThresholdNum == 90
AccuracyThresholdDen == 100

\* data['train_texts'][:500]
CalibrationSize == 500

\* the defaults of select_best_quantization: size_threshold_mb = 20.0 and
\* accuracy_threshold = 0.90 as the fraction 90 / 100
DefaultSizeThresholdMb == 20
DefaultAccuracyNum == 90
DefaultAccuracyDen == 100

\* the default of benchmark_tflite_model: num_runs = 100
DefaultNumRuns == 100

\* ModelQuantizer.QUANTIZATION_METHODS, in the order the dict literal lists them
QUANTIZATION_METHODS == <<"dynamic", "int8", "float16", "int8_fallback">>

\* the keys quantize_all_methods stores results under, in the order it tries them
AllMethods == <<"dynamic", "float16", "int8">>

ModelPath(method) == "models/quantized/mobile_classifier_" \o method \o ".tflite"

QuantizationReportPath == "evaluation/reports/quantization_report.json"

FinalReportPath == "evaluation/reports/final_report.json"

(* ------------------------------ dicts --------------------------------- *)
Keys(d) == [i \in 1..Len(d) |-> d[i].key]

KeySet(d) == {d[i].key : i \in 1..Len(d)}

Get(d, k) == d[CHOOSE i \in 1..Len(d) : d[i].key = k].value

\* d[k] = v: a new key goes last, an existing key keeps its place
Put(d, k, v) ==
    IF k \in KeySet(d)
    THEN [i \in 1..Len(d) |-> IF d[i].key = k THEN [key |-> k, value |-> v] ELSE d[i]]
    ELSE Append(d, [key |-> k, value |-> v])

\* the elements of a list
ToSet(seq) == {seq[i] : i \in 1..Len(seq)}

(* ------------------------------ floats -------------------------------- *)
Frac(a, b) == [num |-> a, den |-> b]

\* x >= y, x > y for quotients with positive denominators
FracGE(x, y) == x.num * y.den >= y.num * x.den

FracGT(x, y) == x.num * y.den > y.num * x.den

accuracy_threshold == Frac(AccuracyThresholdNum, AccuracyThresholdDen)

(* --------------------------- conversion ------------------------------- *)
\* What one converter.convert() call and the steps after it do: the model
\* converts to `size` megabytes in `time`, or convert() raises after `time`,
\* or the bytes are written and the interpreter built from them raises.
ConvOutcomes ==
    {[result |-> "ok", size |-> s, time |-> t] : s \in 1..MaxSizeMb, t \in 1..MaxConvTime}
    \cup {[result |-> r, size |-> 0, time |-> t] :
              r \in {"convert_fails", "info_fails"}, t \in 1..MaxConvTime}

\* The pipeline never reads a conversion time: its runs draw the outcomes
\* with the shortest one only
PipelineOutcomes == {o \in ConvOutcomes : o.time <= 1}

\* TFLiteModelInfo as _get_tflite_model_info builds it (shapes left out)
get_tflite_model_info(model_path, size, quantization_type, conversion_time) ==
    [model_path |-> model_path,
     size_mb |-> size,
     quantization_type |-> quantization_type,
     inference_time_ms |-> 0,
     accuracy |-> 0,
     conversion_time_seconds |-> conversion_time]

\* the result of a quantize_* call: the info it returns, or raised; `written`
\* says whether it wrote output_path, `attempts` lists its convert() calls
Returned(info, attempts) ==
    [raised |-> FALSE, info |-> <<info>>, written |-> TRUE, attempts |-> attempts]

Raised(written, attempts) ==
    [raised |-> TRUE, info |-> <<>>, written |-> written, attempts |-> attempts]

quantize_dynamic(output_path, o) ==
    IF o.result = "convert_fails" THEN Raised(FALSE, <<"dynamic">>)
    ELSE IF o.result = "info_fails" THEN Raised(TRUE, <<"dynamic">>)
    ELSE Returned(get_tflite_model_info(output_path, o.size, "dynamic", o.time),
                  <<"dynamic">>)

quantize_float16(output_path, o) ==
    IF o.result = "convert_fails" THEN Raised(FALSE, <<"float16">>)
    ELSE IF o.result = "info_fails" THEN Raised(TRUE, <<"float16">>)
    ELSE Returned(get_tflite_model_info(output_path, o.size, "float16", o.time),
                  <<"float16">>)

\* quantize_int8 retrying after every failed conversion, whatever the variant
RECURSIVE quantize_int8_retrying(_, _, _, _)
quantize_int8_retrying(output_path, use_fallback, outcomes, attempts) ==
    LET quantization_type == IF use_fallback THEN "int8_fallback" ELSE "int8"
        o == Head(outcomes)
        tried == Append(attempts, quantization_type)
    IN  IF o.result = "convert_fails"
        THEN IF Len(outcomes) > 1
             THEN quantize_int8_retrying(output_path, TRUE, Tail(outcomes), tried)
             ELSE Raised(FALSE, tried)
        ELSE IF o.result = "info_fails" THEN Raised(TRUE, tried)
        ELSE Returned(get_tflite_model_info(output_path, o.size, quantization_type,
                                            o.time), tried)

\* quantize_int8 taking start_time once, before the strict attempt: the
\* conversion time of a retried call spans both attempts
quantize_int8_timed_from_first_attempt(output_path, use_fallback, outcomes, attempts) ==
    LET quantization_type == IF use_fallback THEN "int8_fallback" ELSE "int8"
        o == Head(outcomes)
        tried == Append(attempts, quantization_type)
        retried == Append(tried, "int8_fallback")
    IN  IF o.result = "convert_fails"
        THEN IF ~use_fallback
             THEN IF outcomes[2].result = "convert_fails" THEN Raised(FALSE, retried)
                  ELSE IF outcomes[2].result = "info_fails" THEN Raised(TRUE, retried)
                  ELSE Returned(get_tflite_model_info(output_path, outcomes[2].size,
                                                      "int8_fallback",
                                                      o.time + outcomes[2].time),
                                retried)
             ELSE Raised(FALSE, tried)
        ELSE IF o.result = "info_fails" THEN Raised(TRUE, tried)
        ELSE Returned(get_tflite_model_info(output_path, o.size, quantization_type,
                                            o.time), tried)

\* quantize_int8: `outcomes` holds what the successive convert() calls do,
\* `attempts` the variants tried so far (empty at the outer call)
RECURSIVE quantize_int8(_, _, _, _)
quantize_int8(output_path, use_fallback, outcomes, attempts) ==
    LET quantization_type == IF use_fallback THEN "int8_fallback" ELSE "int8"
        o == Head(outcomes)
        tried == Append(attempts, quantization_type)
    IN  IF o.result = "convert_fails"
        THEN IF ~use_fallback
             THEN quantize_int8(output_path, TRUE, Tail(outcomes), tried)
             ELSE Raised(FALSE, tried)
        ELSE IF o.result = "info_fails" THEN Raised(TRUE, tried)
        ELSE Returned(get_tflite_model_info(output_path, o.size, quantization_type,
                                            o.time), tried)

(* --------------------------- evaluation ------------------------------- *)
\* metrics whose size ratio is taken the wrong way round
QuantizationMetrics_inverted(orig, model_info, quantized_accuracy, avg_ms, method) ==
    [original_size_mb |-> orig.size_mb,
     quantized_size_mb |-> model_info.size_mb,
     size_reduction_ratio |-> Frac(model_info.size_mb, orig.size_mb),
     original_accuracy |-> orig.accuracy,
     quantized_accuracy |-> quantized_accuracy,
     accuracy_retention |-> Frac(quantized_accuracy, orig.accuracy),
     original_inference_ms |-> orig.inference_ms,
     quantized_inference_ms |-> avg_ms,
     speedup_ratio |-> Frac(orig.inference_ms, avg_ms),
     quantization_method |-> method]

\* metrics whose baseline latency is taken anew for each method, at the
\* candidate's own benchmark
QuantizationMetrics_rebased(orig, model_info, quantized_accuracy, avg_ms, method) ==
    [original_size_mb |-> orig.size_mb,
     quantized_size_mb |-> model_info.size_mb,
     size_reduction_ratio |-> Frac(orig.size_mb, model_info.size_mb),
     original_accuracy |-> orig.accuracy,
     quantized_accuracy |-> quantized_accuracy,
     accuracy_retention |-> Frac(quantized_accuracy, orig.accuracy),
     original_inference_ms |-> avg_ms,
     quantized_inference_ms |-> avg_ms,
     speedup_ratio |-> Frac(avg_ms, avg_ms),
     quantization_method |-> method]

\* The QuantizationMetrics evaluate_quantized_models builds for one method
\* from the baseline, the model info, the benchmark and the measured accuracy
QuantizationMetrics(orig, model_info, quantized_accuracy, avg_ms, method) ==
    [original_size_mb |-> orig.size_mb,
     quantized_size_mb |-> model_info.size_mb,
     size_reduction_ratio |-> Frac(orig.size_mb, model_info.size_mb),
     original_accuracy |-> orig.accuracy,
     quantized_accuracy |-> quantized_accuracy,
     accuracy_retention |-> Frac(quantized_accuracy, orig.accuracy),
     original_inference_ms |-> orig.inference_ms,
     quantized_inference_ms |-> avg_ms,
     speedup_ratio |-> Frac(orig.inference_ms, avg_ms),
     quantization_method |-> method]

(* ---------------------------- calibration ----------------------------- *)
\* A corpus is represented by its number of texts.
\* a slice that always holds the number of texts asked for
slice_of_requested_length(texts, stop) == stop

\* texts[:stop]: the first `stop` texts, or all of them when there are fewer
slice(texts, stop) == IF texts < stop THEN texts ELSE stop

(* ---------------------------- selection ------------------------------- *)
\* a minimum scan that keeps the last of the smallest entries
RECURSIVE MinBySize_last(_, _, _)
MinBySize_last(d, i, best) ==
    IF i > Len(d) THEN best
    ELSE MinBySize_last(d, i + 1,
                        IF d[i].value.quantized_size_mb <= d[best].value.quantized_size_mb
                        THEN i ELSE best)

\* min(entries, key=quantized_size_mb) as Python scans it: the index of the
\* first entry no later entry is strictly smaller than
RECURSIVE MinBySize(_, _, _)
MinBySize(d, i, best) ==
    IF i > Len(d) THEN best
    ELSE MinBySize(d, i + 1,
                   IF d[i].value.quantized_size_mb < d[best].value.quantized_size_mb
                   THEN i ELSE best)

\* a maximum scan that stops at the entry it starts from
MaxByRetention_first(d, i, best) == best

\* max(entries, key=accuracy_retention), the first of the largest
RECURSIVE MaxByRetention(_, _, _)
MaxByRetention(d, i, best) ==
    IF i > Len(d) THEN best
    ELSE MaxByRetention(d, i + 1,
                        IF FracGT(d[i].value.accuracy_retention,
                                  d[best].value.accuracy_retention)
                        THEN i ELSE best)

\* valid_methods with the accuracy test forgotten
valid_methods_size_only(evaluation_results, size_threshold_mb, accuracy_thr) ==
    LET Meets(e) == e.value.quantized_size_mb <= size_threshold_mb
    IN  SelectSeq(evaluation_results, Meets)

\* valid_methods that also wants a candidate no slower than the original
valid_methods_no_slower(evaluation_results, size_threshold_mb, accuracy_thr) ==
    LET Meets(e) == /\ e.value.quantized_size_mb <= size_threshold_mb
                    /\ FracGE(e.value.accuracy_retention, accuracy_thr)
                    /\ e.value.quantized_inference_ms <= e.value.original_inference_ms
    IN  SelectSeq(evaluation_results, Meets)

\* the (method, metrics) pairs the loop of select_best_quantization keeps
valid_methods(evaluation_results, size_threshold_mb, accuracy_thr) ==
    LET Meets(e) == /\ e.value.quantized_size_mb <= size_threshold_mb
                    /\ FracGE(e.value.accuracy_retention, accuracy_thr)
    IN  SelectSeq(evaluation_results, Meets)

\* select_best_quantization without the fallback: no method when none is valid
select_best_no_fallback(evaluation_results, size_threshold_mb, accuracy_thr) ==
    LET valid == valid_methods(evaluation_results, size_threshold_mb, accuracy_thr)
    IN  IF Len(valid) = 0
        THEN [raised |-> "ValueError", best_method |-> <<>>]
        ELSE [raised |-> "", best_method |-> <<valid[MinBySize(valid, 1, 1)].key>>]

\* select_best_quantization falling back to the first method tried instead
\* of the smallest
select_best_first_fallback(evaluation_results, size_threshold_mb, accuracy_thr) ==
    LET valid == valid_methods(evaluation_results, size_threshold_mb, accuracy_thr)
    IN  IF Len(valid) = 0
        THEN IF Len(evaluation_results) = 0
             THEN [raised |-> "ValueError", best_method |-> <<>>]
             ELSE [raised |-> "", best_method |-> <<evaluation_results[1].key>>]
        ELSE [raised |-> "", best_method |-> <<valid[MinBySize(valid, 1, 1)].key>>]

\* select_best_quantization: the method name it returns, or the ValueError
\* min() raises on an empty sequence
select_best_quantization(evaluation_results, size_threshold_mb, accuracy_thr) ==
    LET valid == valid_methods(evaluation_results, size_threshold_mb, accuracy_thr)
    IN  IF Len(valid) = 0
        THEN IF Len(evaluation_results) = 0
             THEN [raised |-> "ValueError", best_method |-> <<>>]
             ELSE [raised |-> "",
                   best_method |->
                       <<evaluation_results[MinBySize(evaluation_results, 1, 1)].key>>]
        ELSE [raised |-> "", best_method |-> <<valid[MinBySize(valid, 1, 1)].key>>]

(* ----------------------------- reports -------------------------------- *)
DetailedResult(metrics) ==
    [quantized_size_mb |-> metrics.quantized_size_mb,
     size_reduction_ratio |-> metrics.size_reduction_ratio,
     quantized_accuracy |-> metrics.quantized_accuracy,
     accuracy_retention |-> metrics.accuracy_retention,
     inference_time_ms |-> metrics.quantized_inference_ms,
     speedup_ratio |-> metrics.speedup_ratio]

\* the report create_quantization_report dumps (performance_comparison is
\* always the empty dict)
create_quantization_report(evaluation_results) ==
    LET n == Len(evaluation_results)
        first_result == evaluation_results[1].value
    IN  [summary |->
            [original_model_size_mb |->
                 IF n = 0 THEN <<>> ELSE <<first_result.original_size_mb>>,
             original_accuracy |->
                 IF n = 0 THEN <<>> ELSE <<first_result.original_accuracy>>,
             quantization_methods_tested |-> Keys(evaluation_results),
             best_method_by_size |->
                 IF n = 0 THEN <<>>
                 ELSE <<evaluation_results[MinBySize(evaluation_results, 1, 1)].key>>,
             best_method_by_accuracy |->
                 IF n = 0 THEN <<>>
                 ELSE <<evaluation_results[MaxByRetention(evaluation_results, 1, 1)].key>>,
             recommendation |-> <<>>],
         detailed_results |->
            [i \in 1..n |-> [key |-> evaluation_results[i].key,
                             value |-> DetailedResult(evaluation_results[i].value)]]]

\* a final report that recommends the artifact of the first method evaluated
create_final_report_first_artifact(cfg, evaluation_metrics, quantization_results) ==
    LET best_method == quantization_results.best_method
        best_metrics == Get(quantization_results.evaluation_results, best_method)
    IN  [model_info |->
            [target_size_mb |-> cfg.target_size_mb,
             target_inference_ms |-> cfg.target_inference_ms],
         training_results |->
            [final_accuracy |-> evaluation_metrics.accuracy,
             model_size_mb |-> evaluation_metrics.model_size_mb],
         quantization_results |->
            [best_method |-> best_method,
             final_size_mb |-> best_metrics.quantized_size_mb,
             size_reduction_ratio |-> best_metrics.size_reduction_ratio,
             accuracy_retention |-> best_metrics.accuracy_retention,
             inference_time_ms |-> best_metrics.quantized_inference_ms,
             meets_mobile_requirements |->
                [size_ok |-> best_metrics.quantized_size_mb <= cfg.target_size_mb,
                 inference_ok |->
                     best_metrics.quantized_inference_ms <= cfg.target_inference_ms,
                 accuracy_ok |->
                     FracGE(best_metrics.accuracy_retention, accuracy_threshold)]],
         deployment_info |-> [recommended_model |->
             ModelPath(quantization_results.evaluation_results[1].key)]]

\* the report create_final_report dumps (the performance notes, texts chosen
\* from the same three figures, are left out)
create_final_report(cfg, evaluation_metrics, quantization_results) ==
    LET best_method == quantization_results.best_method
        best_metrics == Get(quantization_results.evaluation_results, best_method)
    IN  [model_info |->
            [target_size_mb |-> cfg.target_size_mb,
             target_inference_ms |-> cfg.target_inference_ms],
         training_results |->
            [final_accuracy |-> evaluation_metrics.accuracy,
             model_size_mb |-> evaluation_metrics.model_size_mb],
         quantization_results |->
            [best_method |-> best_method,
             final_size_mb |-> best_metrics.quantized_size_mb,
             size_reduction_ratio |-> best_metrics.size_reduction_ratio,
             accuracy_retention |-> best_metrics.accuracy_retention,
             inference_time_ms |-> best_metrics.quantized_inference_ms,
             meets_mobile_requirements |->
                [size_ok |-> best_metrics.quantized_size_mb <= cfg.target_size_mb,
                 inference_ok |->
                     best_metrics.quantized_inference_ms <= cfg.target_inference_ms,
                 accuracy_ok |->
                     FracGE(best_metrics.accuracy_retention, accuracy_threshold)]],
         deployment_info |-> [recommended_model |-> ModelPath(best_method)]]

\* a readiness test that leaves the inference time out
mobile_ready_size_and_accuracy(report) ==
    LET m == report.quantization_results.meets_mobile_requirements
    IN  m.size_ok /\ m.accuracy_ok

\* all(final_report[...]['meets_mobile_requirements'].values())
mobile_ready(report) ==
    LET m == report.quantization_results.meets_mobile_requirements
    IN  m.size_ok /\ m.inference_ok /\ m.accuracy_ok

(* ------------------------------ state --------------------------------- *)
VARIABLES
    pc,                  \* where the run is
    data,                \* the corpora prepare_data returned: numbers of texts
    calibration_texts,   \* the calibration set of quantize_model (optional)
    args,                \* the command line: "full", "data_only", "evaluate_only"
    config,              \* config['model']: target_size_mb, target_inference_ms
    classifier,          \* the trained MobileSmsClassifier
    evaluation_metrics,  \* run_complete_pipeline's evaluation_metrics (optional):
                         \* the fields read later, accuracy and model_size_mb
    quantized_models,    \* dict method -> TFLiteModelInfo
    logged_errors,       \* methods whose conversion failure logger.error reported
    files,               \* paths written by this run
    original,            \* the baseline of evaluate_quantized_models (optional)
    evaluation_results,  \* dict method -> QuantizationMetrics
    best_method,         \* what select_best_quantization returned (optional)
    quantization_report, \* content of quantization_report.json (optional)
    final_report,        \* content of final_report.json (optional)
    error,               \* the exception propagating out of the pipeline, or ""
    exit_code,           \* what main returned (optional)
    direct,              \* a direct call of quantize_int8 and its result
    calls                \* the calls the run has made so far, in call order

vars == <<pc, data, calibration_texts, args, config, classifier,
          evaluation_metrics, quantized_models, logged_errors, files, original,
          evaluation_results, best_method, quantization_report, final_report,
          error, exit_code, direct, calls>>

\* one entry of calls: the function called and the method it was called for
Call(op, method) == [op |-> op, method |-> method]

NoDirectCall == [use_fallback |-> TRUE, outcomes |-> <<>>, result |-> <<>>]

\* main() is entered with a loaded configuration and, in a full run, a
\* classifier that prepare_data and train_model have trained
Init ==
    /\ pc = "main"
    /\ args \in {"full", "data_only", "evaluate_only"}
    /\ data \in [train_texts : {SmallCorpus, LargeCorpus}, test_texts : {TestSize}]
    /\ calibration_texts = <<>>
    /\ config \in [target_size_mb : 1..(MaxSizeMb - 1),
                   target_inference_ms : 1..(MaxLatencyMs - 1)]
    /\ classifier \in [model_size_mb : {MaxSizeMb},
                       correct : 0..TestSize,
                       evaluation_metrics : {<<>>}]
    /\ evaluation_metrics = <<>>
    /\ quantized_models = <<>>
    /\ logged_errors = {}
    /\ files = {}
    /\ original = <<>>
    /\ evaluation_results = <<>>
    /\ best_method = <<>>
    /\ quantization_report = <<>>
    /\ final_report = <<>>
    /\ error = ""
    /\ exit_code = <<>>
    /\ calls = <<>>
    /\ direct = NoDirectCall

(* ------------------------------ main ---------------------------------- *)
MainDataOnly ==
    /\ pc = "main" /\ args = "data_only"
    /\ pc' = "exited"
    /\ exit_code' = <<0>>
    /\ UNCHANGED <<data, calibration_texts, args, config, classifier,
                   evaluation_metrics, quantized_models, logged_errors, files,
                   original, evaluation_results, best_method,
                   quantization_report, final_report, error, direct, calls>>

MainEvaluateOnly ==
    /\ pc = "main" /\ args = "evaluate_only"
    /\ pc' = "exited"
    /\ exit_code' = <<0>>
    /\ UNCHANGED <<data, calibration_texts, args, config, classifier,
                   evaluation_metrics, quantized_models, logged_errors, files,
                   original, evaluation_results, best_method,
                   quantization_report, final_report, error, direct, calls>>

\* run_complete_pipeline, steps 1 and 2 (data and training are external)
MainFull ==
    /\ pc = "main" /\ args = "full"
    /\ pc' = "evaluate_model"
    /\ UNCHANGED <<data, calibration_texts, args, config, classifier,
                   evaluation_metrics, quantized_models, logged_errors, files,
                   original, evaluation_results, best_method,
                   quantization_report, final_report, error, exit_code, direct,
                   calls>>

\* classifier.evaluate_model: accuracy and size are the model's, the latency
\* is measured
evaluate_model(c, latency) ==
    [accuracy |-> c.correct,
     avg_inference_time_ms |-> latency,
     model_size_mb |-> c.model_size_mb]

\* run_complete_pipeline, step 3
EvaluateModel ==
    /\ pc = "evaluate_model"
    /\ \E latency \in 1..MaxLatencyMs :
         LET m == evaluate_model(classifier, latency)
         IN  /\ classifier' = [classifier EXCEPT !.evaluation_metrics = <<m>>]
             /\ evaluation_metrics' = <<[accuracy |-> m.accuracy,
                                          model_size_mb |-> m.model_size_mb]>>
    /\ pc' = "quantize_model"
    /\ UNCHANGED <<data, calibration_texts, args, config, quantized_models,
                   logged_errors, files, original, evaluation_results,
                   best_method, quantization_report, final_report, error,
                   exit_code, direct, calls>>

(* --------------------------- quantize_model --------------------------- *)
\* quantize_model cutting the training texts down to the calibration texts
\* in place instead of slicing a copy off them
QuantizeModel_truncating ==
    /\ pc = "quantize_model"
    /\ calibration_texts' = <<slice(data.train_texts, CalibrationSize)>>
    /\ data' = [data EXCEPT !.train_texts = slice(data.train_texts, CalibrationSize)]
    /\ pc' = "quantize_dynamic"
    /\ UNCHANGED <<args, config, classifier, evaluation_metrics,
                   quantized_models, logged_errors, files, original,
                   evaluation_results, best_method, quantization_report,
                   final_report, error, exit_code, direct, calls>>

\* quantize_model up to the call of quantize_all_methods: the quantizer is
\* built on the trained classifier and the calibration texts are sliced off
\* the training texts
QuantizeModel ==
    /\ pc = "quantize_model"
    /\ calibration_texts' = <<slice(data.train_texts, CalibrationSize)>>
    /\ pc' = "quantize_dynamic"
    /\ UNCHANGED <<data, args, config, classifier, evaluation_metrics,
                   quantized_models, logged_errors, files, original,
                   evaluation_results, best_method, quantization_report,
                   final_report, error, exit_code, direct, calls>>

(* ----------------------- quantize_all_methods ------------------------- *)
\* a block of quantize_all_methods without its except clause: a failed
\* conversion leaves quantize_all_methods and the pipeline
TryBlock_uncaught(method, r, next) ==
    IF r.raised
    THEN /\ calls' = Append(calls, Call("quantize", method))
         /\ error' = "ConversionError"
         /\ pc' = "raised"
         /\ files' = IF r.written THEN files \cup {ModelPath(method)} ELSE files
         /\ UNCHANGED <<data, calibration_texts, args, config, classifier,
                        evaluation_metrics, quantized_models, logged_errors,
                        original, evaluation_results, best_method,
                        quantization_report, final_report, exit_code, direct>>
    ELSE /\ calls' = Append(calls, Call("quantize", method))
         /\ quantized_models' = Put(quantized_models, method, r.info[1])
         /\ files' = files \cup {ModelPath(method)}
         /\ pc' = next
         /\ UNCHANGED <<data, calibration_texts, args, config, classifier,
                        evaluation_metrics, logged_errors, original,
                        evaluation_results, best_method, quantization_report,
                        final_report, error, exit_code, direct>>

\* a block of quantize_all_methods whose except clause swallows the failure
\* without logging it
TryBlock_silent(method, r, next) ==
    /\ calls' = Append(calls, Call("quantize", method))
    /\ quantized_models' =
           IF r.raised THEN quantized_models
           ELSE Put(quantized_models, method, r.info[1])
    /\ files' = IF r.written THEN files \cup {ModelPath(method)} ELSE files
    /\ pc' = next
    /\ UNCHANGED <<data, calibration_texts, args, config, classifier,
                   evaluation_metrics, logged_errors, original,
                   evaluation_results, best_method, quantization_report,
                   final_report, error, exit_code, direct>>

\* one try / except block of quantize_all_methods: r is what the quantize_*
\* call did, stored under `method` or logged
TryBlock(method, r, next) ==
    /\ calls' = Append(calls, Call("quantize", method))
    /\ quantized_models' =
           IF r.raised THEN quantized_models
           ELSE Put(quantized_models, method, r.info[1])
    /\ logged_errors' = IF r.raised THEN logged_errors \cup {method} ELSE logged_errors
    /\ files' = IF r.written THEN files \cup {ModelPath(method)} ELSE files
    /\ pc' = next
    /\ UNCHANGED <<data, calibration_texts, args, config, classifier,
                   evaluation_metrics, original, evaluation_results,
                   best_method, quantization_report, final_report, error,
                   exit_code, direct>>

QuantizeDynamic ==
    /\ pc = "quantize_dynamic"
    /\ \E o \in PipelineOutcomes :
         TryBlock("dynamic", quantize_dynamic(ModelPath("dynamic"), o),
                  "quantize_float16")

QuantizeFloat16 ==
    /\ pc = "quantize_float16"
    /\ \E o \in PipelineOutcomes :
         TryBlock("float16", quantize_float16(ModelPath("float16"), o),
                  "quantize_int8")

\* quantize_all_methods without its third block: int8 is never attempted
QuantizeInt8_skipped ==
    /\ pc = "quantize_int8"
    /\ pc' = "evaluate_baseline"
    /\ UNCHANGED <<data, calibration_texts, args, config, classifier,
                   evaluation_metrics, quantized_models, logged_errors, files,
                   original, evaluation_results, best_method,
                   quantization_report, final_report, error, exit_code,
                   direct, calls>>

\* called with use_fallback=True, quantize_int8 converts once: o is what that
\* conversion does
QuantizeInt8 ==
    /\ pc = "quantize_int8"
    /\ \E o \in PipelineOutcomes :
         TryBlock("int8", quantize_int8(ModelPath("int8"), TRUE, <<o>>, <<>>),
                  "evaluate_baseline")

(* --------------------- evaluate_quantized_models ---------------------- *)
\* a quantize_model that writes its report before it selects
AfterEvaluation_reporting_first(n) ==
    IF n = Len(quantized_models) THEN "report" ELSE "evaluate_loop"

\* where the loop over quantized_models.items() goes once n entries are done
AfterEvaluation(n) == IF n = Len(quantized_models) THEN "select" ELSE "evaluate_loop"

\* the part before the loop: the baseline, from a second evaluate_model call
EvaluateBaseline ==
    /\ pc = "evaluate_baseline"
    /\ \E latency \in 1..MaxLatencyMs :
         LET m == evaluate_model(classifier, latency)
         IN  /\ classifier' = [classifier EXCEPT !.evaluation_metrics = <<m>>]
             /\ original' = <<[size_mb |-> classifier.model_size_mb,
                               accuracy |-> m.accuracy,
                               inference_ms |-> m.avg_inference_time_ms]>>
    /\ evaluation_results' = <<>>
    /\ calls' = Append(calls, Call("evaluate_model", "original"))
    /\ pc' = AfterEvaluation(0)
    /\ UNCHANGED <<data, calibration_texts, args, config, evaluation_metrics,
                   quantized_models, logged_errors, files, best_method,
                   quantization_report, final_report, error, exit_code, direct>>

\* an exception leaves evaluate_quantized_models, quantize_model and
\* run_complete_pipeline, none of which catches it; made are the calls the
\* raising statement and those before it in the same step made
Raise(exception, made) ==
    /\ calls' = calls \o made
    /\ error' = exception
    /\ pc' = "raised"
    /\ UNCHANGED <<data, calibration_texts, args, config, classifier,
                   evaluation_metrics, quantized_models, logged_errors, files,
                   original, evaluation_results, best_method,
                   quantization_report, final_report, exit_code, direct>>

\* the loop body measuring the accuracy before it benchmarks
LoopBodyCalls_accuracy_first(method) ==
    <<Call("_evaluate_tflite_accuracy", method),
      Call("benchmark_tflite_model", method)>>

\* the two measuring calls of the loop body, in the order it makes them
LoopBodyCalls(method) ==
    <<Call("benchmark_tflite_model", method),
      Call("_evaluate_tflite_accuracy", method)>>

\* a loop body that stores the benchmark figure of a method before its
\* accuracy is evaluated: when the evaluation raises, the entry stays behind
EvaluateMethod_storing_early ==
    /\ pc = "evaluate_loop"
    /\ LET i == Len(evaluation_results) + 1
           method == quantized_models[i].key
           model_info == quantized_models[i].value
           measuring == LoopBodyCalls(method)
       IN  \/ Raise("benchmark_tflite_model", SubSeq(measuring, 1, 1))
           \/ \E avg_ms \in 1..MaxLatencyMs :
                /\ calls' = calls \o measuring
                /\ evaluation_results' =
                       Put(evaluation_results, method,
                           QuantizationMetrics(original[1], model_info, 0, avg_ms,
                                               method))
                /\ error' = "_evaluate_tflite_accuracy"
                /\ pc' = "raised"
                /\ UNCHANGED <<data, calibration_texts, args, config,
                               classifier, evaluation_metrics, quantized_models,
                               logged_errors, files, original, best_method,
                               quantization_report, final_report, exit_code,
                               direct>>
           \/ \E avg_ms \in 1..MaxLatencyMs, quantized_accuracy \in 0..TestSize :
                IF original[1].accuracy = 0
                THEN Raise("ZeroDivisionError", measuring)
                ELSE /\ calls' = calls \o measuring
                     /\ evaluation_results' =
                            Put(evaluation_results, method,
                                QuantizationMetrics(original[1], model_info,
                                                    quantized_accuracy, avg_ms, method))
                     /\ pc' = AfterEvaluation(i)
                     /\ UNCHANGED <<data, calibration_texts, args, config,
                                    classifier, evaluation_metrics,
                                    quantized_models, logged_errors, files,
                                    original, best_method, quantization_report,
                                    final_report, error, exit_code, direct>>

\* one pass of the loop body, for the next method of quantized_models
EvaluateMethod ==
    /\ pc = "evaluate_loop"
    /\ LET i == Len(evaluation_results) + 1
           method == quantized_models[i].key
           model_info == quantized_models[i].value
           measuring == LoopBodyCalls(method)
       IN  \/ Raise("benchmark_tflite_model", SubSeq(measuring, 1, 1))
           \/ Raise("_evaluate_tflite_accuracy", measuring)
           \/ \E avg_ms \in 1..MaxLatencyMs, quantized_accuracy \in 0..TestSize :
                IF original[1].accuracy = 0
                THEN Raise("ZeroDivisionError", measuring)
                ELSE /\ calls' = calls \o measuring
                     /\ evaluation_results' =
                            Put(evaluation_results, method,
                                QuantizationMetrics(original[1], model_info,
                                                    quantized_accuracy, avg_ms, method))
                     /\ pc' = AfterEvaluation(i)
                     /\ UNCHANGED <<data, calibration_texts, args, config,
                                    classifier, evaluation_metrics,
                                    quantized_models, logged_errors, files,
                                    original, best_method, quantization_report,
                                    final_report, error, exit_code, direct>>

(* --------------------------- quantize_model --------------------------- *)
\* quantize_model catching the selection error and going on to the report
SelectBest_recovering ==
    /\ pc = "select"
    /\ LET r == select_best_quantization(evaluation_results, config.target_size_mb,
                                         accuracy_threshold)
       IN  /\ calls' = Append(calls, Call("select_best_quantization", ""))
           /\ best_method' = r.best_method
           /\ pc' = "report"
           /\ UNCHANGED <<data, calibration_texts, args, config, classifier,
                          evaluation_metrics, quantized_models, logged_errors,
                          files, original, evaluation_results,
                          quantization_report, final_report, error, exit_code,
                          direct>>

SelectBest ==
    /\ pc = "select"
    /\ LET r == select_best_quantization(evaluation_results, config.target_size_mb,
                                         accuracy_threshold)
       IN  IF r.raised # ""
           THEN Raise(r.raised, <<Call("select_best_quantization", "")>>)
           ELSE /\ calls' = Append(calls, Call("select_best_quantization", ""))
                /\ best_method' = r.best_method
                /\ pc' = "report"
                /\ UNCHANGED <<data, calibration_texts, args, config,
                               classifier, evaluation_metrics,
                               quantized_models, logged_errors, files,
                               original, evaluation_results,
                               quantization_report, final_report, error,
                               exit_code, direct>>

CreateQuantizationReport ==
    /\ pc = "report"
    /\ quantization_report' = <<create_quantization_report(evaluation_results)>>
    /\ files' = files \cup {QuantizationReportPath}
    /\ calls' = Append(calls, Call("create_quantization_report", ""))
    /\ pc' = "final_report"
    /\ UNCHANGED <<data, calibration_texts, args, config, classifier,
                   evaluation_metrics, quantized_models, logged_errors,
                   original, evaluation_results, best_method, final_report,
                   error, exit_code, direct>>

(* ------------------------ run_complete_pipeline ----------------------- *)
\* step 5
CreateFinalReport ==
    /\ pc = "final_report"
    /\ final_report' =
           <<create_final_report(config, evaluation_metrics[1],
                                 [best_method |-> best_method[1],
                                  evaluation_results |-> evaluation_results])>>
    /\ files' = files \cup {FinalReportPath}
    /\ calls' = Append(calls, Call("create_final_report", ""))
    /\ pc' = "return"
    /\ UNCHANGED <<data, calibration_texts, args, config, classifier,
                   evaluation_metrics, quantized_models, logged_errors,
                   original, evaluation_results, best_method,
                   quantization_report, error, exit_code, direct>>

\* main: return 0 if mobile_ready else 1
MainReturn ==
    /\ pc = "return"
    /\ exit_code' = <<IF mobile_ready(final_report[1]) THEN 0 ELSE 1>>
    /\ pc' = "exited"
    /\ UNCHANGED <<data, calibration_texts, args, config, classifier,
                   evaluation_metrics, quantized_models, logged_errors, files,
                   original, evaluation_results, best_method,
                   quantization_report, final_report, error, direct, calls>>

\* main: except Exception: return 1
MainExcept ==
    /\ pc = "raised"
    /\ exit_code' = <<1>>
    /\ pc' = "exited"
    /\ UNCHANGED <<data, calibration_texts, args, config, classifier,
                   evaluation_metrics, quantized_models, logged_errors, files,
                   original, evaluation_results, best_method,
                   quantization_report, final_report, error, direct, calls>>

Next ==
    \/ MainDataOnly
    \/ MainEvaluateOnly
    \/ MainFull
    \/ EvaluateModel
    \/ QuantizeModel
    \/ QuantizeDynamic
    \/ QuantizeFloat16
    \/ QuantizeInt8
    \/ EvaluateBaseline
    \/ EvaluateMethod
    \/ SelectBest
    \/ CreateQuantizationReport
    \/ CreateFinalReport
    \/ MainReturn
    \/ MainExcept

Spec == Init /\ [][Next]_vars

(* ------------------- quantize_int8 called directly -------------------- *)
\* A caller of the library calls quantize_int8 on a trained classifier, with
\* either value of use_fallback
InitInt8 ==
    /\ pc = "direct_call"
    /\ direct \in [use_fallback : BOOLEAN,
                   outcomes : [1..MaxConvertCalls -> ConvOutcomes],
                   result : {<<>>}]
    /\ args = "library"
    /\ data = [train_texts |-> SmallCorpus, test_texts |-> TestSize]
    /\ calibration_texts = <<slice(SmallCorpus, CalibrationSize)>>
    /\ config = [target_size_mb |-> 1, target_inference_ms |-> 1]
    /\ classifier = [model_size_mb |-> MaxSizeMb, correct |-> TestSize,
                     evaluation_metrics |-> <<>>]
    /\ evaluation_metrics = <<>>
    /\ quantized_models = <<>>
    /\ logged_errors = {}
    /\ files = {}
    /\ original = <<>>
    /\ evaluation_results = <<>>
    /\ best_method = <<>>
    /\ quantization_report = <<>>
    /\ final_report = <<>>
    /\ error = ""
    /\ exit_code = <<>>
    /\ calls = <<>>

CallQuantizeInt8 ==
    /\ pc = "direct_call"
    /\ LET r == quantize_int8(ModelPath("int8"), direct.use_fallback,
                              direct.outcomes, <<>>)
       IN  /\ direct' = [direct EXCEPT !.result = <<r>>]
           /\ files' = IF r.written THEN files \cup {ModelPath("int8")} ELSE files
           /\ pc' = IF r.raised THEN "direct_raised" ELSE "direct_returned"
    /\ UNCHANGED <<data, calibration_texts, args, config, classifier,
                   evaluation_metrics, quantized_models, logged_errors,
                   original, evaluation_results, best_method,
                   quantization_report, final_report, error, exit_code, calls>>

NextInt8 == CallQuantizeInt8

SpecInt8 == InitInt8 /\ [][NextInt8]_vars

(* ------------- select_best_quantization called directly -------------- *)
\* An optional argument of a call is a sequence of length 0 (left out) or 1.
\* a threshold that is 0 when the caller leaves it out: every retention is
\* at least 0
accuracy_threshold_or_none(accuracy_thr) ==
    IF Len(accuracy_thr) = 0 THEN Frac(0, 1) ELSE accuracy_thr[1]

\* the parameters of select_best_quantization as Python binds them: the
\* value the caller passed, or the default of the signature
size_threshold_or_default(size_threshold_mb) ==
    IF Len(size_threshold_mb) = 0 THEN DefaultSizeThresholdMb ELSE size_threshold_mb[1]

accuracy_threshold_or_default(accuracy_thr) ==
    IF Len(accuracy_thr) = 0 THEN Frac(DefaultAccuracyNum, DefaultAccuracyDen)
    ELSE accuracy_thr[1]

\* the metrics of a candidate of `size` megabytes that answers `correct` of
\* the DefaultAccuracyDen test items the original model answers correctly
Candidate(method, size, correct) ==
    QuantizationMetrics([size_mb |-> DefaultSizeThresholdMb + 1,
                         accuracy |-> DefaultAccuracyDen, inference_ms |-> 1],
                        [size_mb |-> size], correct, 1, method)

\* figures on both sides of the default thresholds
CandidateSizes == (DefaultSizeThresholdMb - 1)..(DefaultSizeThresholdMb + 1)

CandidateAccuracies == (DefaultAccuracyNum - 1)..DefaultAccuracyNum

\* metrics maps of no, one or two methods
CandidateMaps ==
    {<<>>}
    \cup {<<[key |-> "dynamic", value |-> Candidate("dynamic", s, c)]>> :
             s \in CandidateSizes, c \in CandidateAccuracies}
    \cup {<<[key |-> "dynamic", value |-> Candidate("dynamic", s1, c1)],
            [key |-> "float16", value |-> Candidate("float16", s2, c2)]>> :
             s1 \in CandidateSizes, c1 \in CandidateAccuracies,
             s2 \in CandidateSizes, c2 \in CandidateAccuracies}

\* A caller of the library calls select_best_quantization on a metrics map,
\* passing each threshold or leaving it out
InitSelect ==
    /\ pc = "direct_call"
    /\ direct \in [evaluation_results : CandidateMaps,
                   size_threshold_mb : {<<>>, <<DefaultSizeThresholdMb - 1>>,
                                        <<DefaultSizeThresholdMb + 1>>},
                   accuracy_thr : {<<>>, <<Frac(0, 1)>>, <<Frac(1, 1)>>},
                   result : {<<>>}]
    /\ args = "library"
    /\ data = [train_texts |-> SmallCorpus, test_texts |-> TestSize]
    /\ calibration_texts = <<>>
    /\ config = [target_size_mb |-> 1, target_inference_ms |-> 1]
    /\ classifier = [model_size_mb |-> MaxSizeMb, correct |-> TestSize,
                     evaluation_metrics |-> <<>>]
    /\ evaluation_metrics = <<>>
    /\ quantized_models = <<>>
    /\ logged_errors = {}
    /\ files = {}
    /\ original = <<>>
    /\ evaluation_results = <<>>
    /\ best_method = <<>>
    /\ quantization_report = <<>>
    /\ final_report = <<>>
    /\ error = ""
    /\ exit_code = <<>>
    /\ calls = <<>>

CallSelectBest ==
    /\ pc = "direct_call"
    /\ LET r == select_best_quantization(
                    direct.evaluation_results,
                    size_threshold_or_default(direct.size_threshold_mb),
                    accuracy_threshold_or_default(direct.accuracy_thr))
       IN  /\ direct' = [direct EXCEPT !.result = <<r>>]
           /\ pc' = IF r.raised # "" THEN "direct_raised" ELSE "direct_returned"
    /\ UNCHANGED <<data, calibration_texts, args, config, classifier,
                   evaluation_metrics, quantized_models, logged_errors, files,
                   original, evaluation_results, best_method,
                   quantization_report, final_report, error, exit_code, calls>>

NextSelect == CallSelectBest

SpecSelect == InitSelect /\ [][NextSelect]_vars

(* -------- the calibration set and its representative dataset ---------- *)
\* Here the corpora are kept text by text. A text is the sequence of its
\* token ids; the i-th text of a corpus has i % (MaxTokens + 2) tokens, so
\* that neighbours differ and some texts are longer than max_length.
Text(i) == [k \in 1..(i % (MaxTokens + 2)) |-> 1 + ((i + k) % 2)]

Corpus(n) == [i \in 1..n |-> Text(i)]

\* texts[:stop] on the texts themselves
slice_texts(texts, stop) == SubSeq(texts, 1, slice(Len(texts), stop))

\* the tokenizer call of preprocess_data on one text: truncation=True,
\* padding='max_length'; the padding id is 0
tokenizer(text) ==
    LET n == IF Len(text) < MaxTokens THEN Len(text) ELSE MaxTokens
    IN  [input_ids |-> [k \in 1..MaxTokens |-> IF k <= n THEN text[k] ELSE 0],
         attention_mask |-> [k \in 1..MaxTokens |-> IF k <= n THEN 1 ELSE 0]]

\* preprocess_data(texts) without labels: one row per text, in the order of
\* the texts
preprocess_data(texts) ==
    [input_ids |-> [i \in 1..Len(texts) |-> tokenizer(texts[i]).input_ids],
     attention_mask |-> [i \in 1..Len(texts) |-> tokenizer(texts[i]).attention_mask]]

\* a range that stops before a batch that would not be full
in_range_full_batches(i, stop, step) == step > 0 /\ i + step <= stop

\* range(0, stop, step) goes on to i
in_range(i, stop, step) == step > 0 /\ i < stop

\* end_idx = min(i + batch_size, len(texts))
end_idx(i, batch_size, n) == IF i + batch_size < n THEN i + batch_size ELSE n

\* quantize_model has the corpora of prepare_data; the quantizer is asked
\* for the representative dataset of the calibration texts with some batch
\* size, and the generator it returns is run until it is exhausted
InitCalibration ==
    /\ pc = "sample"
    /\ data \in {[train_texts |-> Corpus(n), test_texts |-> TestSize] :
                    n \in {SmallCorpus, LargeCorpus}}
    /\ direct \in [batch_size : 1..MaxBatchSize,
                   processed_data : {<<>>},
                   i : {0},
                   yielded : {<<>>}]
    /\ calibration_texts = <<>>
    /\ args = "library"
    /\ config = [target_size_mb |-> 1, target_inference_ms |-> 1]
    /\ classifier = [model_size_mb |-> MaxSizeMb, correct |-> TestSize,
                     evaluation_metrics |-> <<>>]
    /\ evaluation_metrics = <<>>
    /\ quantized_models = <<>>
    /\ logged_errors = {}
    /\ files = {}
    /\ original = <<>>
    /\ evaluation_results = <<>>
    /\ best_method = <<>>
    /\ quantization_report = <<>>
    /\ final_report = <<>>
    /\ error = ""
    /\ exit_code = <<>>
    /\ calls = <<>>

\* calibration_texts = data['train_texts'][:500]
SampleCalibration ==
    /\ pc = "sample"
    /\ calibration_texts' = <<slice_texts(data.train_texts, CalibrationSize)>>
    /\ pc' = "create_representative_dataset"
    /\ UNCHANGED <<data, args, config, classifier, evaluation_metrics,
                   quantized_models, logged_errors, files, original,
                   evaluation_results, best_method, quantization_report,
                   final_report, error, exit_code, direct, calls>>

\* create_representative_dataset: the texts are preprocessed and the
\* generator function is returned
CreateRepresentativeDataset ==
    /\ pc = "create_representative_dataset"
    /\ direct' = [direct EXCEPT
                     !.processed_data = <<preprocess_data(calibration_texts[1])>>]
    /\ pc' = "representative_data_gen"
    /\ UNCHANGED <<data, calibration_texts, args, config, classifier,
                   evaluation_metrics, quantized_models, logged_errors, files,
                   original, evaluation_results, best_method,
                   quantization_report, final_report, error, exit_code, calls>>

\* one turn of the loop of representative_data_gen: a batch is yielded
YieldBatch ==
    /\ pc = "representative_data_gen"
    /\ in_range(direct.i, Len(calibration_texts[1]), direct.batch_size)
    /\ LET end == end_idx(direct.i, direct.batch_size, Len(calibration_texts[1]))
           processed_data == direct.processed_data[1]
           batch == <<SubSeq(processed_data.input_ids, direct.i + 1, end),
                      SubSeq(processed_data.attention_mask, direct.i + 1, end)>>
       IN  direct' = [direct EXCEPT !.i = direct.i + direct.batch_size,
                                    !.yielded = Append(direct.yielded, batch)]
    /\ UNCHANGED <<pc, data, calibration_texts, args, config, classifier,
                   evaluation_metrics, quantized_models, logged_errors, files,
                   original, evaluation_results, best_method,
                   quantization_report, final_report, error, exit_code, calls>>

\* the range is used up: the generator is exhausted
GeneratorExhausted ==
    /\ pc = "representative_data_gen"
    /\ ~in_range(direct.i, Len(calibration_texts[1]), direct.batch_size)
    /\ pc' = "exhausted"
    /\ UNCHANGED <<data, calibration_texts, args, config, classifier,
                   evaluation_metrics, quantized_models, logged_errors, files,
                   original, evaluation_results, best_method,
                   quantization_report, final_report, error, exit_code,
                   direct, calls>>

NextCalibration ==
    \/ SampleCalibration
    \/ CreateRepresentativeDataset
    \/ YieldBatch
    \/ GeneratorExhausted

SpecCalibration == InitCalibration /\ [][NextCalibration]_vars

(* --------------- benchmark_tflite_model called directly --------------- *)
\* the text benchmarked when test_texts is empty, "Test message"
DefaultSampleText == <<1, 2>>

\* sample_text = test_texts[0] if test_texts else "Test message"
sample_text(test_texts) ==
    IF Len(test_texts) > 0 THEN test_texts[1] ELSE DefaultSampleText

num_runs_or_default(num_runs) ==
    IF Len(num_runs) = 1 THEN num_runs[1] ELSE DefaultNumRuns

RECURSIVE sum(_)
sum(times) == IF times = <<>> THEN 0 ELSE Head(times) + sum(Tail(times))

\* np.mean, np.min and np.max of a non-empty list
np_mean(times) == Frac(sum(times), Len(times))

np_min(times) ==
    CHOOSE t \in ToSet(times) : \A u \in ToSet(times) : t <= u

np_max(times) ==
    CHOOSE t \in ToSet(times) : \A u \in ToSet(times) : t >= u

\* a loop body that leaves the first run out of times, as a warm-up
timed_after_warmup(times, run, elapsed_ms) ==
    IF run = 0 THEN times ELSE Append(times, elapsed_ms)

\* times.append((time.time() - start_time) * 1000) in the run-th turn
timed(times, run, elapsed_ms) == Append(times, elapsed_ms)

\* A caller benchmarks a model file written before, on the first of the
\* test texts, for num_runs runs or the default number of them; the k-th
\* run takes latencies[k] milliseconds, the latencies repeating after
\* MaxRuns runs.
InitBenchmark ==
    /\ pc = "benchmark_tflite_model"
    /\ direct \in [model_path : {ModelPath("dynamic")},
                   test_texts : {<<>>, <<Text(1)>>, <<Text(3), Text(1)>>},
                   num_runs : {<<>>} \cup {<<n>> : n \in 0..MaxRuns},
                   latencies : [1..MaxRuns -> 1..MaxLatencyMs],
                   processed : {<<>>},
                   preprocess_calls : {0},
                   run : {0},
                   inputs : {<<>>},
                   times : {<<>>},
                   result : {<<>>}]
    /\ files = {ModelPath("dynamic")}
    /\ data = [train_texts |-> SmallCorpus, test_texts |-> TestSize]
    /\ calibration_texts = <<>>
    /\ args = "library"
    /\ config = [target_size_mb |-> 1, target_inference_ms |-> 1]
    /\ classifier = [model_size_mb |-> MaxSizeMb, correct |-> TestSize,
                     evaluation_metrics |-> <<>>]
    /\ evaluation_metrics = <<>>
    /\ quantized_models = <<>>
    /\ logged_errors = {}
    /\ original = <<>>
    /\ evaluation_results = <<>>
    /\ best_method = <<>>
    /\ quantization_report = <<>>
    /\ final_report = <<>>
    /\ error = ""
    /\ exit_code = <<>>
    /\ calls = <<>>

\* the part before the loop: the model is loaded, the sample is chosen and
\* preprocessed
BenchmarkSetup ==
    /\ pc = "benchmark_tflite_model"
    /\ direct.model_path \in files
    /\ direct' = [direct EXCEPT
                     !.processed =
                         <<preprocess_data(<<sample_text(direct.test_texts)>>)>>,
                     !.preprocess_calls = direct.preprocess_calls + 1]
    /\ pc' = "benchmark_loop"
    /\ UNCHANGED <<data, calibration_texts, args, config, classifier,
                   evaluation_metrics, quantized_models, logged_errors, files,
                   original, evaluation_results, best_method,
                   quantization_report, final_report, error, exit_code, calls>>

\* one turn of the loop: the input tensors are set from `processed`, the
\* interpreter is invoked, the output is read and the elapsed time is kept
BenchmarkRun ==
    /\ pc = "benchmark_loop"
    /\ in_range(direct.run, num_runs_or_default(direct.num_runs), 1)
    /\ LET elapsed_ms == direct.latencies[(direct.run % MaxRuns) + 1]
       IN  direct' = [direct EXCEPT
                         !.inputs = Append(direct.inputs,
                                           <<direct.processed[1].input_ids,
                                             direct.processed[1].attention_mask>>),
                         !.times = timed(direct.times, direct.run, elapsed_ms),
                         !.run = direct.run + 1]
    /\ UNCHANGED <<pc, data, calibration_texts, args, config, classifier,
                   evaluation_metrics, quantized_models, logged_errors, files,
                   original, evaluation_results, best_method,
                   quantization_report, final_report, error, exit_code, calls>>

\* after the loop: the statistics of times are returned (the standard
\* deviation is left out)
BenchmarkReturn ==
    /\ pc = "benchmark_loop"
    /\ ~in_range(direct.run, num_runs_or_default(direct.num_runs), 1)
    /\ direct.times # <<>>
    /\ direct' = [direct EXCEPT !.result =
                     <<[avg_inference_time_ms |-> np_mean(direct.times),
                        min_inference_time_ms |-> np_min(direct.times),
                        max_inference_time_ms |-> np_max(direct.times),
                        total_benchmark_time_s |-> Frac(sum(direct.times), 1000)]>>]
    /\ pc' = "direct_returned"
    /\ UNCHANGED <<data, calibration_texts, args, config, classifier,
                   evaluation_metrics, quantized_models, logged_errors, files,
                   original, evaluation_results, best_method,
                   quantization_report, final_report, error, exit_code, calls>>

\* after a loop of no run: np.min of the empty list raises ValueError
BenchmarkRaise ==
    /\ pc = "benchmark_loop"
    /\ ~in_range(direct.run, num_runs_or_default(direct.num_runs), 1)
    /\ direct.times = <<>>
    /\ error' = "ValueError"
    /\ pc' = "direct_raised"
    /\ UNCHANGED <<data, calibration_texts, args, config, classifier,
                   evaluation_metrics, quantized_models, logged_errors, files,
                   original, evaluation_results, best_method,
                   quantization_report, final_report, exit_code, direct, calls>>

NextBenchmark ==
    \/ BenchmarkSetup
    \/ BenchmarkRun
    \/ BenchmarkReturn
    \/ BenchmarkRaise

SpecBenchmark == InitBenchmark /\ [][NextBenchmark]_vars

(* ------------- _evaluate_tflite_accuracy called directly -------------- *)
\* the pairs zip(a, b) runs through: as many as the shorter list holds
zip(a, b) ==
    [i \in 1..(IF Len(a) < Len(b) THEN Len(a) ELSE Len(b)) |-> <<a[i], b[i]>>]

\* a count that goes up at every pair, whatever was predicted
counted_always(correct_predictions, predicted_label, true_label) ==
    correct_predictions + 1

\* if predicted_label == true_label: correct_predictions += 1
counted(correct_predictions, predicted_label, true_label) ==
    IF predicted_label = true_label THEN correct_predictions + 1
    ELSE correct_predictions

\* A caller evaluates a model file written before on test texts and labels
\* (0 or 1); predicted[k] is the label the model gives at its k-th inference.
InitAccuracy ==
    /\ pc = "_evaluate_tflite_accuracy"
    /\ direct \in [model_path : {ModelPath("dynamic")},
                   test_texts : {Corpus(n) : n \in 0..MaxTestItems},
                   test_labels : UNION {[1..n -> 0..1] : n \in 0..MaxTestItems},
                   predicted : [1..MaxTestItems -> 0..1],
                   evaluated : {<<>>},
                   correct_predictions : {0},
                   result : {<<>>}]
    /\ files = {ModelPath("dynamic")}
    /\ data = [train_texts |-> SmallCorpus, test_texts |-> TestSize]
    /\ calibration_texts = <<>>
    /\ args = "library"
    /\ config = [target_size_mb |-> 1, target_inference_ms |-> 1]
    /\ classifier = [model_size_mb |-> MaxSizeMb, correct |-> TestSize,
                     evaluation_metrics |-> <<>>]
    /\ evaluation_metrics = <<>>
    /\ quantized_models = <<>>
    /\ logged_errors = {}
    /\ original = <<>>
    /\ evaluation_results = <<>>
    /\ best_method = <<>>
    /\ quantization_report = <<>>
    /\ final_report = <<>>
    /\ error = ""
    /\ exit_code = <<>>
    /\ calls = <<>>

\* the part before the loop: the model is loaded, the count starts at 0
AccuracySetup ==
    /\ pc = "_evaluate_tflite_accuracy"
    /\ direct.model_path \in files
    /\ direct' = [direct EXCEPT !.correct_predictions = 0]
    /\ pc' = "accuracy_loop"
    /\ UNCHANGED <<data, calibration_texts, args, config, classifier,
                   evaluation_metrics, quantized_models, logged_errors, files,
                   original, evaluation_results, best_method,
                   quantization_report, final_report, error, exit_code, calls>>

\* one turn of the loop: the next pair of zip(test_texts, test_labels) is
\* preprocessed, run through the model and compared with its label
AccuracyStep ==
    /\ pc = "accuracy_loop"
    /\ LET pairs == zip(direct.test_texts, direct.test_labels)
           k == Len(direct.evaluated) + 1
       IN  /\ k <= Len(pairs)
           /\ LET text == pairs[k][1]
                  true_label == pairs[k][2]
                  processed == preprocess_data(<<text>>)
                  predicted_label == direct.predicted[k]
              IN  direct' = [direct EXCEPT
                     !.evaluated = Append(direct.evaluated,
                                          [input_ids |-> processed.input_ids,
                                           attention_mask |-> processed.attention_mask,
                                           true_label |-> true_label]),
                     !.correct_predictions =
                         counted(direct.correct_predictions, predicted_label,
                                 true_label)]
    /\ UNCHANGED <<pc, data, calibration_texts, args, config, classifier,
                   evaluation_metrics, quantized_models, logged_errors, files,
                   original, evaluation_results, best_method,
                   quantization_report, final_report, error, exit_code, calls>>

\* accuracy = correct_predictions / len(test_texts)
AccuracyReturn ==
    /\ pc = "accuracy_loop"
    /\ Len(direct.evaluated) = Len(zip(direct.test_texts, direct.test_labels))
    /\ Len(direct.test_texts) # 0
    /\ direct' = [direct EXCEPT !.result =
                     <<Frac(direct.correct_predictions, Len(direct.test_texts))>>]
    /\ pc' = "direct_returned"
    /\ UNCHANGED <<data, calibration_texts, args, config, classifier,
                   evaluation_metrics, quantized_models, logged_errors, files,
                   original, evaluation_results, best_method,
                   quantization_report, final_report, error, exit_code, calls>>

\* the division by len(test_texts) of an empty list
AccuracyRaise ==
    /\ pc = "accuracy_loop"
    /\ Len(direct.evaluated) = Len(zip(direct.test_texts, direct.test_labels))
    /\ Len(direct.test_texts) = 0
    /\ error' = "ZeroDivisionError"
    /\ pc' = "direct_raised"
    /\ UNCHANGED <<data, calibration_texts, args, config, classifier,
                   evaluation_metrics, quantized_models, logged_errors, files,
                   original, evaluation_results, best_method,
                   quantization_report, final_report, exit_code, direct, calls>>

NextAccuracy ==
    \/ AccuracySetup
    \/ AccuracyStep
    \/ AccuracyReturn
    \/ AccuracyRaise

SpecAccuracy == InitAccuracy /\ [][NextAccuracy]_vars

(* ====================================================================== *)
(*                               Claims                                   *)
(* ====================================================================== *)
\* select_best_quantization has returned a method in this run
Selected == Len(best_method) = 1

MetricsOf(m) == Get(evaluation_results, m)

\* the candidates that meet both constraints of the run, stated from the
\* stored figures: size <= target_size_mb and accuracy retention >= 0.90
Qualifies(m) ==
    /\ MetricsOf(m).quantized_size_mb <= config.target_size_mb
    /\ MetricsOf(m).quantized_accuracy * AccuracyThresholdDen
           >= AccuracyThresholdNum * MetricsOf(m).original_accuracy

Qualifying == {m \in KeySet(evaluation_results) : Qualifies(m)}

\* Scenarios A and B: dynamic 8MB / 0.97, float16 15MB / 0.99, int8 3MB / 0.85
ScenarioMetrics(method, size, correct) ==
    QuantizationMetrics([size_mb |-> 250, accuracy |-> 100, inference_ms |-> 1],
                        [size_mb |-> size], correct, 1, method)

ScenarioCandidates ==
    <<[key |-> "dynamic", value |-> ScenarioMetrics("dynamic", 8, 97)],
      [key |-> "float16", value |-> ScenarioMetrics("float16", 15, 99)],
      [key |-> "int8", value |-> ScenarioMetrics("int8", 3, 85)]>>

\* C1: selection under feasible constraints.  Whenever a method has been
\* selected and at least one candidate meets both constraints, the selected
\* method is one of the qualifying candidates and no qualifying candidate is
\* strictly smaller; and Scenario A (thresholds 20 / 0.90) selects dynamic.
C1_SelectionUnderFeasibleConstraints ==
    /\ (Selected /\ Qualifying # {}) =>
           /\ best_method[1] \in Qualifying
           /\ \A m \in Qualifying :
                  MetricsOf(m).quantized_size_mb
                      >= MetricsOf(best_method[1]).quantized_size_mb
    /\ select_best_quantization(ScenarioCandidates, 20, accuracy_threshold)
           = [raised |-> "", best_method |-> <<"dynamic">>]

\* C1 witness: a selection among two or more qualifying candidates, with a
\* candidate that fails a constraint but is no larger than the selected one
C1_Witness ==
    /\ Selected
    /\ Cardinality(Qualifying) >= 2
    /\ \E m \in KeySet(evaluation_results) \ Qualifying :
           MetricsOf(m).quantized_size_mb
               <= MetricsOf(best_method[1]).quantized_size_mb

\* the maps this run's candidates would give had they measured other
\* accuracies: same methods, sizes and latencies
WithAccuracies(acc) ==
    [i \in 1..Len(evaluation_results) |->
        [key |-> evaluation_results[i].key,
         value |-> [evaluation_results[i].value EXCEPT
                       !.quantized_accuracy = acc[i],
                       !.accuracy_retention =
                           Frac(acc[i], evaluation_results[i].value.original_accuracy)]]]

OtherAccuracies ==
    {WithAccuracies(acc) : acc \in [1..Len(evaluation_results) -> 0..TestSize]}

IsGloballySmallest(m) ==
    \A k \in KeySet(evaluation_results) :
        MetricsOf(k).quantized_size_mb >= MetricsOf(m).quantized_size_mb

FinalFlags == final_report[1].quantization_results.meets_mobile_requirements

C3_NoCandidateRaisesToCaller ==
    /\ error = "ValueError" =>
           /\ pc \in {"raised", "exited"}
           /\ Len(evaluation_results) = 0
           /\ best_method = <<>>
           /\ quantization_report = <<>> /\ final_report = <<>>
           /\ pc = "exited" => exit_code = <<1>>
    /\ pc \in {"report", "final_report", "return"} => Len(evaluation_results) > 0
    /\ (pc = "exited" /\ args = "full" /\ Len(quantized_models) = 0) =>
           error = "ValueError"
    /\ \A size_threshold_mb \in 0..MaxSizeMb :
           select_best_quantization(<<>>, size_threshold_mb, accuracy_threshold)
               = [raised |-> "ValueError", best_method |-> <<>>]

\* C3 witness: every conversion failed and the run ended with the error
C3_Witness ==
    /\ pc = "exited"
    /\ error = "ValueError"
    /\ logged_errors = {"dynamic", "float16", "int8"}
    /\ exit_code = <<1>>

\* constraint values around the figures of the model: sizes from below the
\* smallest to above the largest, retention thresholds 0, 0.9, 1 and 2
SizeThresholds == 0..(MaxSizeMb + 1)

AccuracyThresholds == {Frac(0, 1), accuracy_threshold, Frac(1, 1), Frac(2, 1)}

\* C4: whenever at least one candidate exists, the selection returns exactly
\* one method and it is a key of the candidate map, for every combination of
\* constraint values; it returns no method only when the map is empty.
C4_ExactlyOneMethodUnlessEmpty ==
    /\ \A st \in SizeThresholds, at \in AccuracyThresholds :
           LET r == select_best_quantization(evaluation_results, st, at)
           IN  IF Len(evaluation_results) > 0
               THEN /\ r.raised = ""
                    /\ Len(r.best_method) = 1
                    /\ r.best_method[1] \in KeySet(evaluation_results)
               ELSE r.best_method = <<>>
    /\ pc \in {"report", "final_report", "return"} =>
           /\ Selected
           /\ best_method[1] \in KeySet(evaluation_results)
    /\ (pc = "exited" /\ args = "full" /\ ~Selected) =>
           \/ error = "ValueError" /\ Len(evaluation_results) = 0
           \/ error \in {"benchmark_tflite_model", "_evaluate_tflite_accuracy",
                         "ZeroDivisionError"}

\* C4 witness: a method was selected from several candidates none of which
\* meets the constraints of the run
C4_Witness ==
    /\ Selected
    /\ Len(evaluation_results) >= 2
    /\ Qualifying = {}

\* the methods quantize_all_methods has been through when the run is at pc
Attempted ==
    IF \/ args # "full"
       \/ pc \in {"main", "evaluate_model", "quantize_model", "quantize_dynamic"}
    THEN {}
    ELSE IF pc = "quantize_float16" THEN {"dynamic"}
    ELSE IF pc = "quantize_int8" THEN {"dynamic", "float16"}
    ELSE {"dynamic", "float16", "int8"}


\* C5: conversion failure isolation.  A strategy whose conversion failed is
\* logged and absent from the converted-model map, from methods_tested and
\* from detailed_results; every strategy is still tried, and every one that
\* converted is in the map and, once the report is written, reported; a
\* conversion failure never ends the run: the run fails only in the
\* evaluation, or in the selection when no strategy converted at all.
C5_ConversionFailureIsolated ==
    /\ logged_errors \cap KeySet(quantized_models) = {}
    /\ logged_errors \cup KeySet(quantized_models) = Attempted
    /\ \A m \in KeySet(quantized_models) : ModelPath(m) \in files
    /\ error \in {"", "benchmark_tflite_model", "_evaluate_tflite_accuracy",
                  "ZeroDivisionError", "ValueError"}
    /\ error = "ValueError" => logged_errors = {"dynamic", "float16", "int8"}
    /\ Len(quantization_report) = 1 =>
           /\ quantization_report[1].summary.quantization_methods_tested
                  = Keys(quantized_models)
           /\ Keys(quantization_report[1].detailed_results) = Keys(quantized_models)
           /\ logged_errors \cap
                  ToSet(quantization_report[1].summary.quantization_methods_tested) = {}
    /\ (pc = "exited" /\ args = "full" /\ error = "") =>
           Len(quantization_report) = 1 /\ Len(final_report) = 1

\* C5 witness: float16 failed to convert, dynamic before it and int8 after it
\* converted, and the run ended with both of them reported
C5_Witness ==
    /\ pc = "exited"
    /\ error = ""
    /\ logged_errors = {"float16"}
    /\ Len(quantization_report) = 1
    /\ quantization_report[1].summary.quantization_methods_tested = <<"dynamic", "int8">>
    /\ Keys(quantization_report[1].detailed_results) = <<"dynamic", "int8">>

\* the benchmark or the accuracy evaluation of a candidate raised
EvaluationFailed == error \in {"benchmark_tflite_model", "_evaluate_tflite_accuracy"}

\* the candidate the evaluation loop was at when it raised
FailedCandidate == quantized_models[Len(evaluation_results) + 1].key

\* C6 as stated: benchmark / evaluation failure isolation.  When the
\* benchmark or the accuracy evaluation of one candidate raises, by the end
\* of the run only that candidate is missing from the metrics map: its
\* siblings before and after it are measured, and the run goes on to the
\* selection and the report.
C6_EvaluationFailureIsolated ==
    (pc = "exited" /\ EvaluationFailed) =>
        /\ KeySet(evaluation_results) = KeySet(quantized_models) \ {FailedCandidate}
        /\ KeySet(evaluation_results) # {} =>
               Selected /\ Len(quantization_report) = 1

\* C7 as stated: a full run in which at least one strategy was converted,
\* benchmarked and evaluated ends with the quantization report written,
\* whatever happened to the other strategies.
C7_ReportWheneverAStrategySucceeds ==
    (pc = "exited" /\ args = "full" /\ Len(evaluation_results) >= 1) =>
        Len(quantization_report) = 1

\* C8: retry policy of quantize_int8.  A call makes one conversion attempt,
\* with the variant it was asked for, and a second one exactly when the
\* strict variant (use_fallback = False) failed to convert; the second
\* attempt uses the fallback variant; when it fails too the error reaches the
\* caller, with no third attempt; a call with use_fallback = True that fails
\* raises at once.  Every call ends: it returns or raises.
C8_OneRetryThenPropagate ==
    /\ pc = "direct_call" => ENABLED CallQuantizeInt8
    /\ pc \in {"direct_returned", "direct_raised"} => Len(direct.result) = 1
    /\ Len(direct.result) = 1 =>
           LET r == direct.result[1]
               a == r.attempts
               first_fails == direct.outcomes[1].result = "convert_fails"
           IN  /\ Len(a) \in {1, 2}
               /\ a[1] = IF direct.use_fallback THEN "int8_fallback" ELSE "int8"
               /\ Len(a) = 2 <=> (~direct.use_fallback /\ first_fails)
               /\ Len(a) = 2 => a[2] = "int8_fallback"
               /\ (Len(a) = 2 /\ direct.outcomes[2].result = "convert_fails") =>
                      r.raised /\ r.info = <<>> /\ pc = "direct_raised"
               /\ (Len(a) = 2 /\ direct.outcomes[2].result = "ok") =>
                      /\ ~r.raised
                      /\ r.info[1].quantization_type = "int8_fallback"
               /\ (direct.use_fallback /\ first_fails) => r.raised

\* C8 witness: the strict variant failed, the retry with the fallback variant
\* failed too, and the call raised after these two attempts
C8_Witness ==
    /\ pc = "direct_raised"
    /\ ~direct.use_fallback
    /\ direct.result[1].attempts = <<"int8", "int8_fallback">>
    /\ direct.outcomes[3].result = "ok"

\* the place of a method in the order quantize_all_methods enumerates them
EnumerationIndex(m) == CHOOSE i \in 1..Len(AllMethods) : AllMethods[i] = m

\* the set the selector minimises over: the qualifying candidates, or every
\* evaluated candidate when none qualifies
Minimised == IF Qualifying # {} THEN Qualifying ELSE KeySet(evaluation_results)

\* its members of the smallest size
Smallest ==
    {m \in Minimised :
        \A k \in Minimised :
            MetricsOf(k).quantized_size_mb >= MetricsOf(m).quantized_size_mb}

Completed == pc = "exited" /\ args = "full" /\ error = "" /\ Selected

\* the selected method is within the target inference time of the run
FastEnough(m) == MetricsOf(m).quantized_inference_ms <= config.target_inference_ms

\* C10 as stated: process exit status.  A run that finds no candidate exits
\* non-zero, and a completed run exits zero exactly when the selected method
\* meets the size and the accuracy-retention constraints.
C10_ExitZeroIffSizeAndAccuracyMet ==
    /\ (pc = "exited" /\ error = "ValueError") => exit_code = <<1>>
    /\ Completed => (exit_code = <<0>> <=> Qualifies(best_method[1]))

\* C10: process exit status.  A full run exits zero exactly when it completes
\* and the selected method meets the size constraint, the accuracy-retention
\* constraint and the target inference time; it exits with 1 when any of the
\* three fails and whenever an exception ends the run, the one for an empty
\* candidate map included.
C10_ExitZeroIffAllThreeMet ==
    (pc = "exited" /\ args = "full") =>
        /\ exit_code \in {<<0>>, <<1>>}
        /\ error # "" => exit_code = <<1>>
        /\ error = "" => Selected /\ Len(final_report) = 1
        /\ exit_code = <<0>> <=>
               /\ Completed
               /\ Qualifies(best_method[1])
               /\ FastEnough(best_method[1])

\* C10 witness: a completed run whose selected method meets the size and
\* accuracy constraints but is too slow, and which exits with 1
C10_Witness ==
    /\ Completed
    /\ Qualifies(best_method[1])
    /\ ~FastEnough(best_method[1])
    /\ exit_code = <<1>>

\* more calibration texts are asked for than the training corpus holds
CorpusTooShort == data.train_texts < CalibrationSize

MethodsTested == quantization_report[1].summary.quantization_methods_tested

\* C11 as stated: calibration sampling of more texts than the corpus holds
\* fails, so that the calibration-requiring strategy (int8) is skipped: it
\* is never converted and is absent from the methods the report lists.
C11_ShortCorpusSkipsInt8 ==
    CorpusTooShort =>
        /\ "int8" \notin KeySet(quantized_models)
        /\ Len(quantization_report) = 1 => "int8" \notin ToSet(MethodsTested)

\* C11: calibration sampling never fails.  The calibration set is the
\* first CalibrationSize training texts, or all of them when the corpus is
\* shorter, and the training corpus is left as it was; whatever the corpus
\* length, int8 is attempted once the conversion stage is over, and the
\* report lists exactly the methods that were converted, int8 included when
\* its conversion succeeded.
C11_ShortCorpusIsUsedWhole ==
    /\ Len(calibration_texts) = 1 =>
           /\ calibration_texts[1] <= data.train_texts
           /\ calibration_texts[1] <= CalibrationSize
           /\ calibration_texts[1] \in {data.train_texts, CalibrationSize}
    /\ (args = "full" /\ pc \notin {"main", "evaluate_model", "quantize_model"}) =>
           Len(calibration_texts) = 1
    /\ (args = "full" /\ pc \in {"evaluate_baseline", "evaluate_loop", "select",
                                 "report", "final_report", "return"}) =>
           "int8" \in KeySet(quantized_models) \cup logged_errors
    /\ Len(quantization_report) = 1 =>
           ToSet(MethodsTested) = KeySet(quantized_models)

\* C11 witness: a report of a run whose training corpus is shorter than the
\* calibration size, listing int8 next to dynamic and float16
C11_Witness ==
    /\ CorpusTooShort
    /\ Len(quantization_report) = 1
    /\ calibration_texts = <<data.train_texts>>
    /\ ToSet(MethodsTested) = {"dynamic", "float16", "int8"}

\* C12 as stated: the metrics of the uncompressed model are computed exactly
\* once per pipeline run: once they exist, no later step measures them again.
C12_BaselineComputedOncePerRun ==
    [][Len(classifier.evaluation_metrics) = 1 =>
           classifier'.evaluation_metrics = classifier.evaluation_metrics]_vars

\* C12: within evaluate_quantized_models the baseline is taken once, before
\* the loop, and every metrics record carries it: the original size, accuracy
\* and latency of every record are those of the one baseline, every ratio is
\* taken against them, and the original size and accuracy the quantization
\* report shows are the ones the ratios were divided by.
C12_BaselineSharedByAllRecords ==
    /\ Len(evaluation_results) > 0 => Len(original) = 1
    /\ \A i \in 1..Len(evaluation_results) :
           LET v == evaluation_results[i].value
           IN  /\ v.original_size_mb = original[1].size_mb
               /\ v.original_accuracy = original[1].accuracy
               /\ v.original_inference_ms = original[1].inference_ms
               /\ v.size_reduction_ratio.num = original[1].size_mb
               /\ v.accuracy_retention.den = original[1].accuracy
               /\ v.speedup_ratio.num = original[1].inference_ms
    /\ \A i, j \in 1..Len(evaluation_results) :
           LET s == evaluation_results[i].value
               t == evaluation_results[j].value
           IN  /\ s.original_size_mb = t.original_size_mb
               /\ s.original_accuracy = t.original_accuracy
               /\ s.original_inference_ms = t.original_inference_ms
    /\ Len(quantization_report) = 1 =>
           LET r == quantization_report[1]
           IN  /\ r.summary.original_model_size_mb = <<original[1].size_mb>>
               /\ r.summary.original_accuracy = <<original[1].accuracy>>
               /\ \A i \in 1..Len(r.detailed_results) :
                      /\ r.detailed_results[i].value.accuracy_retention.den
                             = original[1].accuracy
                      /\ r.detailed_results[i].value.size_reduction_ratio.num
                             = original[1].size_mb

\* C12 witness: a report on three strategies whose own latencies differ
\* from each other and from the baseline latency
C12_Witness ==
    /\ Len(quantization_report) = 1
    /\ Len(evaluation_results) = 3
    /\ \E i, j \in 1..3 :
           /\ evaluation_results[i].value.quantized_inference_ms
                  # evaluation_results[j].value.quantized_inference_ms
           /\ evaluation_results[i].value.quantized_inference_ms
                  # original[1].inference_ms

\* C13: every record of the metrics map belongs to a converted artifact of
\* strictly positive size, and its three ratios are exactly baseline size
\* over candidate size, candidate accuracy over baseline accuracy and
\* baseline latency over candidate latency, each with a non-zero divisor; a
\* baseline accuracy of zero stops the evaluation before any record is built.
C13_RatiosExactAndDefined ==
    /\ \A i \in 1..Len(evaluation_results) :
           LET v == evaluation_results[i].value
               model_info == Get(quantized_models, evaluation_results[i].key)
           IN  /\ evaluation_results[i].key \in KeySet(quantized_models)
               /\ v.quantized_size_mb = model_info.size_mb
               /\ v.quantized_size_mb > 0
               /\ v.size_reduction_ratio = Frac(v.original_size_mb, v.quantized_size_mb)
               /\ v.accuracy_retention = Frac(v.quantized_accuracy, v.original_accuracy)
               /\ v.speedup_ratio = Frac(v.original_inference_ms, v.quantized_inference_ms)
               /\ v.size_reduction_ratio.den # 0
               /\ v.accuracy_retention.den # 0
               /\ v.speedup_ratio.den # 0
    /\ (Len(original) = 1 /\ original[1].accuracy = 0) => Len(evaluation_results) = 0
    /\ error = "ZeroDivisionError" => original[1].accuracy = 0

\* C13 witness: a record of a candidate smaller, less accurate and slower
\* than the baseline, beside one of a candidate as large as the baseline
C13_Witness ==
    \E i, j \in 1..Len(evaluation_results) :
        LET v == evaluation_results[i].value
            w == evaluation_results[j].value
        IN  /\ v.quantized_size_mb < v.original_size_mb
            /\ v.quantized_accuracy < v.original_accuracy
            /\ v.quantized_inference_ms > v.original_inference_ms
            /\ w.quantized_size_mb = w.original_size_mb

\* C14: the quantization report written in a run records the outcome of the
\* selection: its summary names the method the selector returned in that run.
C14_ReportNamesSelectedMethod ==
    Len(quantization_report) = 1 =>
        /\ Selected
        /\ quantization_report[1].summary.recommendation = best_method

\* every strategy name that occurs anywhere in the quantization report
NamedInReport ==
    LET r == quantization_report[1]
    IN  ToSet(r.summary.quantization_methods_tested)
        \cup ToSet(r.summary.best_method_by_size)
        \cup ToSet(r.summary.best_method_by_accuracy)
        \cup ToSet(r.summary.recommendation)
        \cup KeySet(r.detailed_results)

\* C15 as stated: a strategy that failed is left out of detailed_results and
\* the report records that it was left out: its name can be read in the report.
C15_OmissionRecordedInReport ==
    Len(quantization_report) = 1 =>
        \A m \in logged_errors :
            /\ m \notin KeySet(quantization_report[1].detailed_results)
            /\ m \in NamedInReport

\* C15: a strategy whose conversion failed is left out of detailed_results
\* and of the methods the report lists, and the report names it nowhere: the
\* failure is recorded by the error log alone.  The report lists exactly the
\* strategies that were tried and did not fail.
C15_OmissionOnlyLogged ==
    Len(quantization_report) = 1 =>
        /\ logged_errors \cap NamedInReport = {}
        /\ KeySet(quantization_report[1].detailed_results)
               = ToSet(AllMethods) \ logged_errors
        /\ ToSet(MethodsTested) = ToSet(AllMethods) \ logged_errors

\* C15 witness: a report of a run in which one conversion failed after its
\* file was written, another failed before, and the third succeeded
C15_Witness ==
    /\ Len(quantization_report) = 1
    /\ Cardinality(logged_errors) = 2
    /\ \E m \in logged_errors : ModelPath(m) \in files
    /\ \E m \in logged_errors : ModelPath(m) \notin files

\* C16: in the quantization report, best_method_by_size is a reported
\* strategy no reported strategy is smaller than, and best_method_by_accuracy
\* a reported strategy no reported strategy retains more accuracy than; both
\* range over every reported strategy, whether it meets the constraints of
\* the run or not and whatever the selection returned.
C16_InformationalBestsOverAllReported ==
    Len(quantization_report) = 1 =>
        LET summary == quantization_report[1].summary
            by_size == summary.best_method_by_size
            by_accuracy == summary.best_method_by_accuracy
        IN  /\ Len(by_size) = 1 /\ Len(by_accuracy) = 1
            /\ by_size[1] \in ToSet(MethodsTested)
            /\ by_accuracy[1] \in ToSet(MethodsTested)
            /\ ToSet(MethodsTested) = KeySet(evaluation_results)
            /\ \A m \in KeySet(evaluation_results) :
                   /\ MetricsOf(m).quantized_size_mb
                          >= MetricsOf(by_size[1]).quantized_size_mb
                   /\ FracGE(MetricsOf(by_accuracy[1]).accuracy_retention,
                             MetricsOf(m).accuracy_retention)

\* C16 witness: a report whose smallest strategy fails the accuracy
\* constraint, so that the selected method is neither the best by size nor
\* the only qualifying one, and the best by accuracy is not the best by size
C16_Witness ==
    /\ Len(quantization_report) = 1
    /\ Selected
    /\ quantization_report[1].summary.best_method_by_size # best_method
    /\ quantization_report[1].summary.best_method_by_accuracy
           # quantization_report[1].summary.best_method_by_size
    /\ quantization_report[1].summary.best_method_by_accuracy[1] # AllMethods[1]
    /\ ~Qualifies(quantization_report[1].summary.best_method_by_size[1])

\* the steps of quantize_model: conversion, baseline, benchmark and accuracy
\* evaluation, selection, reporting
InQuantizeModel ==
    pc \in {"quantize_model", "quantize_dynamic", "quantize_float16", "quantize_int8",
            "evaluate_baseline", "evaluate_loop", "select", "report"}

\* C17 as stated: no step of conversion, benchmarking, accuracy evaluation,
\* baseline computation, selection or reporting changes any state of the
\* classifier object or of the corpora.
C17_ClassifierAndCorporaUntouched ==
    [][InQuantizeModel => (classifier' = classifier /\ data' = data)]_vars

\* C17: no step of the pipeline changes the corpora or the trained model
\* (its size and its predictions); the one classifier attribute that changes
\* is evaluation_metrics, and only the two evaluations of the uncompressed
\* model (step 3 and the baseline computation) change it: conversion,
\* benchmarking, accuracy evaluation of the candidates, selection and
\* reporting leave the whole classifier as it was.
C17_OnlyEvaluationMetricsChange ==
    [][/\ data' = data
       /\ classifier'.model_size_mb = classifier.model_size_mb
       /\ classifier'.correct = classifier.correct
       /\ classifier' # classifier => pc \in {"evaluate_model", "evaluate_baseline"}]_vars

\* C17 witness: a completed run on a training corpus longer than the
\* calibration set, after the baseline computation has stored its metrics
\* in the classifier
C17_Witness ==
    /\ Completed
    /\ calibration_texts[1] < data.train_texts
    /\ Len(evaluation_results) = 3
    /\ classifier.evaluation_metrics[1].avg_inference_time_ms = original[1].inference_ms
    /\ classifier.evaluation_metrics[1].avg_inference_time_ms > 1

\* the map this run's candidates would give had the benchmarks measured the
\* latencies lat (lat[n + 1] for the baseline) and had the accuracies been
\* counted on a corpus k times as long with the same share of correct
\* answers: same methods, sizes and accuracy retentions
Remeasured(lat, k) ==
    LET n == Len(evaluation_results)
    IN  [i \in 1..n |->
            [key |-> evaluation_results[i].key,
             value |->
                 LET v == evaluation_results[i].value
                 IN  [v EXCEPT
                         !.original_inference_ms = lat[n + 1],
                         !.quantized_inference_ms = lat[i],
                         !.speedup_ratio = Frac(lat[n + 1], lat[i]),
                         !.original_accuracy = k * v.original_accuracy,
                         !.quantized_accuracy = k * v.quantized_accuracy,
                         !.accuracy_retention = Frac(k * v.quantized_accuracy,
                                                     k * v.original_accuracy)]]]

OtherMeasurements ==
    {Remeasured(lat, k) :
        lat \in [1..(Len(evaluation_results) + 1) -> 1..MaxLatencyMs], k \in 1..2}

\* C18: determinism of the selection.  Whatever latencies the benchmarks
\* measure, a run with the same candidates, sizes, accuracy retentions and
\* constraints selects the same method: the selection depends on the sizes
\* and the accuracy retentions only.
C18_SelectionIgnoresLatency ==
    Selected =>
        \A other \in OtherMeasurements :
            select_best_quantization(other, config.target_size_mb, accuracy_threshold)
                = [raised |-> "", best_method |-> best_method]

\* C18 witness: the selected method is slower than the original model and
\* than another candidate that meets both constraints as well
C18_Witness ==
    /\ Selected
    /\ MetricsOf(best_method[1]).quantized_inference_ms
           > MetricsOf(best_method[1]).original_inference_ms
    /\ \E m \in Qualifying \ {best_method[1]} :
           MetricsOf(m).quantized_inference_ms
               < MetricsOf(best_method[1]).quantized_inference_ms

\* quantize_all_methods has returned in this run
ConversionStageOver ==
    /\ args = "full"
    /\ pc \in {"evaluate_baseline", "evaluate_loop", "select", "report",
               "final_report", "return", "raised", "exited"}

\* C19: after the conversion stage, the artifact file named after a strategy
\* has been written by this run if and only if the strategy is in the
\* converted-model map; a strategy whose conversion stage failed has left no
\* file.
C19_ArtifactIffConverted ==
    ConversionStageOver =>
        \A i \in 1..Len(AllMethods) :
            ModelPath(AllMethods[i]) \in files
                <=> AllMethods[i] \in KeySet(quantized_models)

\* a direct call of select_best_quantization has returned a method
DirectSelected == Len(direct.result) = 1 /\ direct.result[1].raised = ""

DirectMetricsOf(m) == Get(direct.evaluation_results, m)

\* the candidates that meet the constraints the caller supplied, a
\* constraint left out being disabled
MeetsSupplied(m) ==
    /\ Len(direct.size_threshold_mb) = 1 =>
           DirectMetricsOf(m).quantized_size_mb <= direct.size_threshold_mb[1]
    /\ Len(direct.accuracy_thr) = 1 =>
           FracGE(DirectMetricsOf(m).accuracy_retention, direct.accuracy_thr[1])

\* the candidates that meet both constraints, a constraint left out being
\* 20 MB for the size and 0.90 for the accuracy retention
MeetsSuppliedOrDefault(m) ==
    /\ DirectMetricsOf(m).quantized_size_mb
           <= (IF Len(direct.size_threshold_mb) = 1
               THEN direct.size_threshold_mb[1] ELSE DefaultSizeThresholdMb)
    /\ FracGE(DirectMetricsOf(m).accuracy_retention,
              IF Len(direct.accuracy_thr) = 1
              THEN direct.accuracy_thr[1]
              ELSE Frac(DefaultAccuracyNum, DefaultAccuracyDen))

\* method m is a smallest member of the set of candidates S
SmallestOf(m, S) ==
    /\ m \in S
    /\ \A k \in S : DirectMetricsOf(k).quantized_size_mb
                        >= DirectMetricsOf(m).quantized_size_mb

\* C20 as stated: a constraint the caller does not supply is disabled.  The
\* selected method is a smallest candidate among those that meet the supplied
\* constraints alone; with both left out it is a smallest candidate of all.
C20_AbsentConstraintDisabled ==
    DirectSelected =>
        LET S == {m \in KeySet(direct.evaluation_results) : MeetsSupplied(m)}
        IN  S # {} => SmallestOf(direct.result[1].best_method[1], S)

\* C20: a constraint the caller does not supply takes its default, 20 MB
\* for the size and 0.90 for the accuracy retention, and is applied like a
\* supplied one.  The selected method is a smallest candidate among those
\* that meet both constraints, or a smallest candidate of all when none
\* does; an empty map raises.
C20_AbsentConstraintTakesDefault ==
    Len(direct.result) = 1 =>
        LET all == KeySet(direct.evaluation_results)
            S == {m \in all : MeetsSuppliedOrDefault(m)}
            r == direct.result[1]
        IN  IF all = {}
            THEN r.raised = "ValueError" /\ pc = "direct_raised"
            ELSE /\ DirectSelected
                 /\ SmallestOf(r.best_method[1], IF S # {} THEN S ELSE all)

\* C20 witness: a call that leaves both thresholds out and returns a method
\* although another candidate is strictly smaller: the smaller one retains
\* less than 0.90 of the accuracy, and the returned one is within 20 MB
C20_Witness ==
    /\ DirectSelected
    /\ direct.size_threshold_mb = <<>>
    /\ direct.accuracy_thr = <<>>
    /\ \E k \in KeySet(direct.evaluation_results) :
           DirectMetricsOf(k).quantized_size_mb
               < DirectMetricsOf(direct.result[1].best_method[1]).quantized_size_mb

(* ------------------------------- C21 ---------------------------------- *)
\* the positions of calls at which `op` was called for `method`
CallsOf(op, method) == {i \in 1..Len(calls) : calls[i] = Call(op, method)}

\* the positions of calls at which a conversion was called
Conversions == {i \in 1..Len(calls) : calls[i].op = "quantize"}

\* the positions of calls at which a quantized model was measured
Measurements ==
    {i \in 1..Len(calls) :
        calls[i].op \in {"benchmark_tflite_model", "_evaluate_tflite_accuracy"}}

\* C21 as stated: the strategies are processed one at a time, convert,
\* benchmark, evaluate, so that whenever the conversion of a strategy starts,
\* every strategy converted before it has had its accuracy evaluated
C21_EachStrategyFinishedBeforeNextConversion ==
    \A j \in Conversions : \A i \in Conversions :
        (i < j /\ calls[i].method \in KeySet(quantized_models))
            => \E k \in CallsOf("_evaluate_tflite_accuracy", calls[i].method) :
                   i < k /\ k < j

\* C21 amended: the calls are made one at a time in two stages. All the
\* conversions come first, in the order dynamic, float16, int8 and once each,
\* before the baseline and before any measurement. Then each converted
\* strategy in turn is benchmarked and, right after its benchmark, has its
\* accuracy evaluated: a benchmark is only made for a strategy whose
\* conversion succeeded and follows that conversion, it starts only once the
\* baseline or the accuracy evaluation of another strategy is over, and an
\* accuracy evaluation directly follows the benchmark of its own strategy.
C21_ConversionsThenEvaluationsInOrder ==
    /\ \A i \in Conversions :
          /\ i <= Len(AllMethods)
          /\ calls[i].method = AllMethods[i]
          /\ \A j \in 1..Len(calls) : j < i => j \in Conversions
    /\ \A j \in Measurements :
          LET method == calls[j].method
          IN  /\ method \in KeySet(quantized_models)
              /\ \E i \in CallsOf("quantize", method) : i < j
              /\ j > 1
              /\ calls[j].op = "benchmark_tflite_model"
                    => \/ calls[j - 1] = Call("evaluate_model", "original")
                       \/ /\ calls[j - 1].op = "_evaluate_tflite_accuracy"
                          /\ calls[j - 1].method # method
              /\ calls[j].op = "_evaluate_tflite_accuracy"
                    => calls[j - 1] = Call("benchmark_tflite_model", method)
              /\ Cardinality(CallsOf(calls[j].op, method)) = 1

\* two strategies were converted and both were benchmarked and evaluated
C21_Witness ==
    /\ pc = "select"
    /\ Len(quantized_models) >= 2
    /\ \A method \in KeySet(quantized_models) :
          /\ CallsOf("benchmark_tflite_model", method) # {}
          /\ CallsOf("_evaluate_tflite_accuracy", method) # {}

RetrySucceeded ==
    /\ pc # "direct_call"
    /\ ~direct.use_fallback
    /\ direct.outcomes[1].result = "convert_fails"
    /\ direct.outcomes[2].result = "ok"

\* what a retried call hands back apart from the label: one result, written
\* to the path the caller gave, with the size and the conversion time of the
\* second attempt alone, and no other file
OneResultOfFinalAttempt ==
    /\ pc = "direct_returned"
    /\ Len(direct.result) = 1
    /\ ~direct.result[1].raised
    /\ Len(direct.result[1].info) = 1
    /\ direct.result[1].info[1].model_path = ModelPath("int8")
    /\ direct.result[1].info[1].size_mb = direct.outcomes[2].size
    /\ direct.result[1].info[1].conversion_time_seconds = direct.outcomes[2].time
    /\ files = {ModelPath("int8")}

\* C23 as stated: when the strict variant of int8 fails and the fallback
\* retry succeeds, the single result carries the name of the attempting
\* strategy, int8, and the conversion time of the final successful attempt
C23_RetryReportedAsAttemptingStrategy ==
    RetrySucceeded =>
        /\ OneResultOfFinalAttempt
        /\ direct.result[1].info[1].quantization_type = "int8"

\* C23 amended: when the strict variant of int8 fails and the fallback retry
\* succeeds, the call returns a single result, written to the path the
\* attempting call was given, with the conversion time of the final
\* successful attempt alone; no second result or file appears for the
\* fallback variant, but the result is labelled with the variant that
\* converted, int8_fallback, not with the strict variant that was asked for.
C23_RetryReportedAsFallbackVariant ==
    RetrySucceeded =>
        /\ OneResultOfFinalAttempt
        /\ direct.result[1].info[1].quantization_type = "int8_fallback"

\* the strict attempt failed and the retry returned a model
C23_Witness ==
    /\ RetrySucceeded
    /\ pc = "direct_returned"
    /\ direct.result[1].attempts = <<"int8", "int8_fallback">>
    /\ direct.result[1].info[1].conversion_time_seconds
           < direct.outcomes[1].time + direct.outcomes[2].time

(* ------------------------------- C24 ---------------------------------- *)
\* the rows lo..hi the generator has to yield: those of the texts lo..hi of
\* the corpus
ExpectedRows(field, lo, hi) ==
    [r \in 1..(hi - lo + 1) |-> tokenizer(data.train_texts[lo + r - 1])[field]]

\* the j-th batch holds the rows after those of the j - 1 batches before it,
\* batch_size of them or, at the end of the calibration set, those left
IsNextBatch(j) ==
    LET lo == (j - 1) * direct.batch_size + 1
        full == j * direct.batch_size
        hi == IF full < Len(calibration_texts[1]) THEN full
              ELSE Len(calibration_texts[1])
    IN  /\ lo <= hi
        /\ direct.yielded[j][1] = ExpectedRows("input_ids", lo, hi)
        /\ direct.yielded[j][2] = ExpectedRows("attention_mask", lo, hi)

\* the calibration set is the prefix of the corpus of the requested length
\* (of the whole corpus when it is shorter), and the batches yielded so far
\* are its rows in corpus order with none left out or repeated: all of them
\* once the generator is exhausted
SampledAndYieldedInOrder ==
    Len(calibration_texts) = 1 =>
        LET texts == calibration_texts[1]
        IN  /\ Len(data.train_texts) >= CalibrationSize => Len(texts) = CalibrationSize
            /\ Len(texts) <= Len(data.train_texts)
            /\ \A i \in 1..Len(texts) : texts[i] = data.train_texts[i]
            /\ \A j \in 1..Len(direct.yielded) : IsNextBatch(j)
            /\ pc = "exhausted" =>
                   Len(direct.yielded) * direct.batch_size >= Len(texts)

\* only the calibration set, the preprocessed rows and the generator change
SamplingLeavesStateAlone ==
    /\ data' = data
    /\ pc # "sample" => calibration_texts' = calibration_texts
    /\ UNCHANGED <<args, config, classifier, evaluation_metrics,
                   quantized_models, logged_errors, files, original,
                   evaluation_results, best_method, quantization_report,
                   final_report, error, exit_code, calls>>

\* C24: calibration sampling is a deterministic, order-preserving prefix of
\* the corpus, of the requested length when the corpus holds that many texts;
\* the representative-data generator yields every item of the calibration
\* set exactly once, in corpus order, for every batch size of at least 1,
\* the last batch being the only one that may be shorter; sampling changes
\* neither the corpus nor any other state.
C24_CalibrationPrefixYieldedOnceInOrder ==
    []SampledAndYieldedInOrder /\ [][SamplingLeavesStateAlone]_vars

\* the generator is exhausted after a last batch shorter than the others
C24_Witness ==
    /\ pc = "exhausted"
    /\ Len(data.train_texts) > CalibrationSize
    /\ direct.batch_size > 1
    /\ Len(direct.yielded) > 1
    /\ Len(direct.yielded[Len(direct.yielded)][1]) < direct.batch_size

(* ------------------------------- C25 ---------------------------------- *)
\* the number of runs the benchmark was asked for
RunsAsked == IF Len(direct.num_runs) = 1 THEN direct.num_runs[1] ELSE DefaultNumRuns

\* the input a benchmark has to feed: the rows of the first test text
BenchmarkInput ==
    LET row == tokenizer(IF direct.test_texts = <<>> THEN DefaultSampleText
                         ELSE direct.test_texts[1])
    IN  <<<<row.input_ids>>, <<row.attention_mask>>>>

\* C25: a benchmark performs exactly `runs` timed inferences, 100 by
\* default, one after the other, all on the same single input, which is
\* preprocessed once before the first run; the duration of every run is
\* recorded, the first included, and the aggregates are taken over all of
\* them: the mean is their sum over their number and the minimum and the
\* maximum are among them, so that min <= mean <= max.
C25_BenchmarkProtocol ==
    /\ pc = "benchmark_tflite_model" =>
           direct.preprocess_calls = 0 /\ direct.run = 0
    /\ pc # "benchmark_tflite_model" => direct.preprocess_calls = 1
    /\ direct.run <= RunsAsked
    /\ Len(direct.times) = direct.run
    /\ Len(direct.inputs) = direct.run
    /\ \A k \in 1..direct.run :
          /\ direct.times[k] = direct.latencies[((k - 1) % MaxRuns) + 1]
          /\ direct.inputs[k] = BenchmarkInput
    /\ pc \in {"direct_returned", "direct_raised"} => direct.run = RunsAsked
    /\ pc = "direct_raised" => RunsAsked = 0
    /\ pc = "direct_returned" =>
          LET r == direct.result[1]
              n == RunsAsked
              total == r.avg_inference_time_ms.num
          IN  /\ n >= 1
              /\ r.avg_inference_time_ms.den = n
              /\ total = sum(direct.times)
              /\ \E k \in 1..n : direct.times[k] = r.min_inference_time_ms
              /\ \E k \in 1..n : direct.times[k] = r.max_inference_time_ms
              /\ \A k \in 1..n : /\ r.min_inference_time_ms <= direct.times[k]
                                  /\ direct.times[k] <= r.max_inference_time_ms
              /\ r.min_inference_time_ms * n <= total
              /\ total <= r.max_inference_time_ms * n

\* a benchmark of the default number of runs has returned, its runs not all
\* of the same duration
C25_Witness ==
    /\ pc = "direct_returned"
    /\ direct.num_runs = <<>>
    /\ Len(direct.times) = DefaultNumRuns
    /\ direct.result[1].min_inference_time_ms < direct.result[1].max_inference_time_ms

(* ------------------------------- C26 ---------------------------------- *)
\* the (input, true_label) pairs of the test corpus
TestPairs ==
    IF Len(direct.test_texts) < Len(direct.test_labels)
    THEN Len(direct.test_texts) ELSE Len(direct.test_labels)

\* the pairs among the first k whose prediction is the true label
CorrectAmong(k) == {j \in 1..k : direct.predicted[j] = direct.test_labels[j]}

\* C26: accuracy evaluation runs every (input, true_label) pair of the test
\* corpus through the candidate exactly once, in corpus order; the total
\* count is the size of the test corpus, the correct count is the number of
\* pairs predicted right and never exceeds the total, and for every
\* non-empty test corpus the accuracy returned is correct / total and lies
\* between 0 and 1.
C26_AccuracyCountsEveryPairOnce ==
    LET k == Len(direct.evaluated)
    IN  /\ k <= TestPairs
        /\ \A j \in 1..k :
              /\ direct.evaluated[j].input_ids
                     = <<tokenizer(direct.test_texts[j]).input_ids>>
              /\ direct.evaluated[j].attention_mask
                     = <<tokenizer(direct.test_texts[j]).attention_mask>>
              /\ direct.evaluated[j].true_label = direct.test_labels[j]
        /\ direct.correct_predictions = Cardinality(CorrectAmong(k))
        /\ direct.correct_predictions <= k
        /\ pc \in {"direct_returned", "direct_raised"} => k = TestPairs
        /\ pc = "direct_raised" => Len(direct.test_texts) = 0
        /\ pc = "direct_returned" =>
              /\ Len(direct.test_texts) > 0
              /\ direct.result[1].den = Len(direct.test_texts)
              /\ direct.result[1].num = Cardinality(CorrectAmong(TestPairs))
              /\ 0 <= direct.result[1].num
              /\ direct.result[1].num <= direct.result[1].den
              /\ Len(direct.test_labels) = Len(direct.test_texts) =>
                     k = Len(direct.test_texts)

\* an evaluation of several labelled texts has returned, some predictions
\* right and some wrong
C26_Witness ==
    /\ pc = "direct_returned"
    /\ Len(direct.test_texts) = MaxTestItems
    /\ Len(direct.test_labels) = MaxTestItems
    /\ 0 < direct.result[1].num
    /\ direct.result[1].num < direct.result[1].den

(* ------------------------------- C27 ---------------------------------- *)
\* C27: every entry of the converted-model map is labelled consistently: the
\* quantization_type inside its model info is the key it is stored under,
\* and the artifact file of the info is the one named after that key.
C27_EntriesLabelledConsistently ==
    \A i \in 1..Len(quantized_models) :
        /\ quantized_models[i].value.quantization_type = quantized_models[i].key
        /\ quantized_models[i].value.model_path = ModelPath(quantized_models[i].key)

(* ------------------------------- C28 ---------------------------------- *)
\* the positions of calls at which a report was asked for
ReportCalls ==
    {i \in 1..Len(calls) :
        calls[i].op \in {"create_quantization_report", "create_final_report"}}

\* some report of this run exists, as a value or as a file
SomeReportWritten ==
    \/ quantization_report # <<>>
    \/ final_report # <<>>
    \/ QuantizationReportPath \in files
    \/ FinalReportPath \in files

\* C28: a report is written only after a successful selection: every report
\* call follows a selection call that returned a method, and a run in which
\* zero strategies converted calls the selection, which fails, and ends with
\* neither the quantization report nor the final report written.
C28_ReportOnlyAfterSelection ==
    /\ \A i \in ReportCalls :
          /\ Selected
          /\ \E j \in 1..(i - 1) : calls[j].op = "select_best_quantization"
    /\ SomeReportWritten => (Selected /\ ReportCalls # {})
    /\ pc \in {"report", "final_report", "return"} => Selected
    /\ (ConversionStageOver /\ quantized_models = <<>> /\ pc \in {"raised", "exited"}) =>
          /\ error = "ValueError"
          /\ calls[Len(calls)].op = "select_best_quantization"
          /\ ~Selected
          /\ ReportCalls = {}
          /\ ~SomeReportWritten

\* no strategy converted: the selection was called and failed, no report
C28_Witness ==
    /\ pc = "exited"
    /\ args = "full"
    /\ quantized_models = <<>>
    /\ Cardinality(Conversions) = Len(AllMethods)
    /\ calls[Len(calls)].op = "select_best_quantization"
    /\ ~SomeReportWritten

(* ------------------------------- C29 ---------------------------------- *)
\* C29: in every completed run the final report agrees with the selection:
\* it names the selected method, its flags size_ok and accuracy_ok are those
\* of the selected method and are both true exactly when the method was
\* picked from a non-empty set of candidates meeting both constraints, not
\* by the fallback, and its recommended_model is the artifact file written
\* for the selected method in this run.
C29_FinalReportAgreesWithSelection ==
    Completed =>
        /\ Len(final_report) = 1
        /\ final_report[1].quantization_results.best_method = best_method[1]
        /\ FinalFlags.size_ok <=>
               MetricsOf(best_method[1]).quantized_size_mb <= config.target_size_mb
        /\ FinalFlags.accuracy_ok <=>
               MetricsOf(best_method[1]).quantized_accuracy * AccuracyThresholdDen
                   >= AccuracyThresholdNum * MetricsOf(best_method[1]).original_accuracy
        /\ (FinalFlags.size_ok /\ FinalFlags.accuracy_ok) <=>
               (Qualifying # {} /\ best_method[1] \in Qualifying)
        /\ Qualifying # {} => best_method[1] \in Qualifying
        /\ final_report[1].deployment_info.recommended_model
               = Get(quantized_models, best_method[1]).model_path
        /\ final_report[1].deployment_info.recommended_model \in files
        /\ final_report[1].deployment_info.recommended_model
               = ModelPath(best_method[1])

\* a completed run whose selected method qualifies and is not the first one
\* evaluated, and another candidate does not qualify
C29_Witness ==
    /\ Completed
    /\ best_method[1] \in Qualifying
    /\ best_method[1] # evaluation_results[1].key
    /\ KeySet(evaluation_results) \ Qualifying # {}
    /\ FinalFlags.size_ok /\ FinalFlags.accuracy_ok

(* ------------------------------- C30 ---------------------------------- *)
\* the accuracy evaluation of `method` was called and came back: it is not
\* the call that raised, which is the last one made
AccuracyEvaluated(method) ==
    \E i \in CallsOf("_evaluate_tflite_accuracy", method) :
        error = "_evaluate_tflite_accuracy" => i < Len(calls)

\* the metrics map holds entries of converted strategies only, in the order
\* of the converted-model map, each one added after the benchmark and the
\* accuracy evaluation of its strategy came back and carrying their figures;
\* the report lists as tested the keys of its detailed results
MetricsMapComplete ==
    /\ KeySet(evaluation_results) \subseteq KeySet(quantized_models)
    /\ Len(evaluation_results) = Cardinality(KeySet(evaluation_results))
    /\ \A i \in 1..Len(evaluation_results) :
          LET method == evaluation_results[i].key
              metrics == evaluation_results[i].value
          IN  /\ method = quantized_models[i].key
              /\ CallsOf("benchmark_tflite_model", method) # {}
              /\ AccuracyEvaluated(method)
              /\ metrics.quantization_method = method
              /\ metrics.quantized_size_mb = quantized_models[i].value.size_mb
              /\ metrics.quantized_inference_ms \in 1..MaxLatencyMs
              /\ metrics.quantized_accuracy \in 0..TestSize
    /\ Len(quantization_report) = 1 =>
          /\ quantization_report[1].summary.quantization_methods_tested
                 = Keys(quantization_report[1].detailed_results)
          /\ Keys(quantization_report[1].detailed_results) = Keys(evaluation_results)

\* a step adds at most one entry, at the end, and leaves the others alone
MetricsMapOnlyGrows ==
    /\ Len(evaluation_results') \in {Len(evaluation_results), Len(evaluation_results) + 1}
    /\ \A i \in 1..Len(evaluation_results) :
          evaluation_results'[i] = evaluation_results[i]

\* C30: the metrics map only holds complete entries of converted strategies:
\* its key set is at every point a subset of the key set of the
\* converted-model map, an entry is added only after both the benchmark and
\* the accuracy evaluation of its strategy finished, an entry once added is
\* never changed or removed, and methods_tested in the report equals the key
\* set of detailed_results.
C30_MetricsMapCompleteAndStable ==
    []MetricsMapComplete /\ [][MetricsMapOnlyGrows]_vars

\* the report of a run with a failed conversion: two entries, added one
\* after the other
C30_Witness ==
    /\ Len(quantization_report) = 1
    /\ Len(evaluation_results) = 2
    /\ Cardinality(logged_errors) = 1
    /\ \E i \in CallsOf("_evaluate_tflite_accuracy", evaluation_results[1].key) :
       \E j \in CallsOf("benchmark_tflite_model", evaluation_results[2].key) : i < j

====
